---- MODULE Spec2Model ----
(***************************************************************************)
(* Model of the skill advisor (.opencode/scripts/skill_advisor.py): the    *)
(* request router analyze_request with its helpers get_skills,             *)
(* expand_query, calculate_confidence, calculate_uncertainty and           *)
(* passes_dual_threshold.                                                  *)
(*                                                                         *)
(* Python floats are IEEE-754 binary64.  Every float the router computes   *)
(* is 0 or lies in [2^-8, 2^15), so it is a multiple of 2^-60: a float is  *)
(* modelled by the natural number x * 2^60, held as a little-endian        *)
(* sequence of limbs in base 2^15 (TLC integers are 32 bits wide).  Sums   *)
(* and products are computed exactly and then rounded to 53 significant    *)
(* bits, ties to even, as the hardware does.                               *)
(***************************************************************************)
EXTENDS Integers, Sequences, FiniteSets, TLC

\* ------------------------------------------------------------- big naturals

Base == 32768
LimbBits == 15
FracLimbs == 4
Mantissa == 53

RECURSIVE Pow2(_)
Pow2(n) == IF n = 0 THEN 1 ELSE 2 * Pow2(n - 1)

RECURSIVE BNorm(_)
BNorm(a) == IF a # <<>> /\ a[Len(a)] = 0 THEN BNorm(SubSeq(a, 1, Len(a) - 1)) ELSE a

BLimb(a, i) == IF i <= Len(a) THEN a[i] ELSE 0

BMax(x, y) == IF x >= y THEN x ELSE y

RECURSIVE BAddFrom(_, _, _, _)
BAddFrom(a, b, i, carry) ==
    IF i > BMax(Len(a), Len(b))
    THEN (IF carry = 0 THEN <<>> ELSE <<carry>>)
    ELSE LET s == BLimb(a, i) + BLimb(b, i) + carry
         IN  <<s % Base>> \o BAddFrom(a, b, i + 1, s \div Base)

BAdd(a, b) == BNorm(BAddFrom(a, b, 1, 0))

RECURSIVE BMulSmallFrom(_, _, _, _)
BMulSmallFrom(a, k, i, carry) ==
    IF i > Len(a)
    THEN (IF carry = 0 THEN <<>> ELSE <<carry>>)
    ELSE LET s == a[i] * k + carry
         IN  <<s % Base>> \o BMulSmallFrom(a, k, i + 1, s \div Base)

BMulSmall(a, k) == BNorm(BMulSmallFrom(a, k, 1, 0))

BZeros(n) == [i \in 1..n |-> 0]

BShlLimbs(a, n) == IF a = <<>> THEN <<>> ELSE BZeros(n) \o a

RECURSIVE BMulFrom(_, _, _)
BMulFrom(a, b, i) ==
    IF i > Len(b) THEN <<>>
    ELSE BAdd(BShlLimbs(BMulSmall(a, b[i]), i - 1), BMulFrom(a, b, i + 1))

BMul(a, b) == BMulFrom(a, b, 1)

\* Short division by a small divisor, most significant limb first:
\* <<quotient, remainder>>.
RECURSIVE BDivSmallFrom(_, _, _, _)
BDivSmallFrom(a, d, i, rem) ==
    IF i = 0 THEN <<<<>>, rem>>
    ELSE LET cur == rem * Base + a[i]
             rest == BDivSmallFrom(a, d, i - 1, cur % d)
         IN  <<rest[1] \o <<cur \div d>>, rest[2]>>

BDivSmall(a, d) ==
    LET r == BDivSmallFrom(a, d, Len(a), 0)
    IN  <<BNorm(r[1]), r[2]>>

RECURSIVE BCmpFrom(_, _, _)
BCmpFrom(a, b, i) ==
    IF i = 0 THEN 0
    ELSE IF a[i] > b[i] THEN 1
    ELSE IF a[i] < b[i] THEN -1
    ELSE BCmpFrom(a, b, i - 1)

\* -1, 0 or 1 as a < b, a = b, a > b (both normalised).
BCmp(a, b) ==
    IF Len(a) > Len(b) THEN 1
    ELSE IF Len(a) < Len(b) THEN -1
    ELSE BCmpFrom(a, b, Len(a))

RECURSIVE SmallBitLen(_)
SmallBitLen(n) == IF n = 0 THEN 0 ELSE 1 + SmallBitLen(n \div 2)

BBitLen(a) == IF a = <<>> THEN 0 ELSE LimbBits * (Len(a) - 1) + SmallBitLen(a[Len(a)])

\* a \div 2^s
BShr(a, s) ==
    LET n == s \div LimbBits
        b == s % LimbBits
        hi == IF n >= Len(a) THEN <<>> ELSE SubSeq(a, n + 1, Len(a))
    IN  IF b = 0 THEN hi
        ELSE BNorm([i \in 1..Len(hi) |->
                      (hi[i] \div Pow2(b)) + (BLimb(hi, i + 1) % Pow2(b)) * Pow2(LimbBits - b)])

\* a % 2^s
BLow(a, s) ==
    LET n == s \div LimbBits
        b == s % LimbBits
    IN  IF n >= Len(a) THEN a
        ELSE BNorm(SubSeq(a, 1, n) \o (IF b = 0 THEN <<>> ELSE <<a[n + 1] % Pow2(b)>>))

\* a * 2^s
BShl(a, s) == BShlLimbs(BMulSmall(a, Pow2(s % LimbBits)), s \div LimbBits)

BOne == <<1>>

BIsOdd(a) == a # <<>> /\ a[1] % 2 = 1

\* ------------------------------------------------------------ binary64

\* n rounded to 53 significant bits, ties to even; sticky says that the
\* exact value lies strictly above n (bits below n's unit were dropped).
RoundSig(n, sticky) ==
    LET len == BBitLen(n)
    IN  IF len <= Mantissa THEN n
        ELSE LET s    == len - Mantissa
                 q    == BShr(n, s)
                 r    == BLow(n, s)
                 half == BShl(BOne, s - 1)
                 c    == BCmp(r, half)
                 up   == c = 1 \/ (c = 0 /\ (sticky \/ BIsOdd(q)))
             IN  BShl(IF up THEN BAdd(q, BOne) ELSE q, s)

FZero == <<>>

\* The float of a decimal literal num/den (den a power of ten below 2^15):
\* the binary64 nearest to the rational, as Python's parser yields it.
FLit(num, den) ==
    LET guard == 2
        n  == BShl(BMulSmall(BOne, num), LimbBits * FracLimbs + LimbBits * guard)
        qr == BDivSmall(n, den)
        r  == RoundSig(qr[1], qr[2] # 0)
    IN  BShr(r, LimbBits * guard)

\* float(n) for a small non-negative int
FInt(n) == BShlLimbs(BMulSmall(BOne, n), FracLimbs)

\* a + b (x + 0 is x)
FAdd(a, b) ==
    IF a = FZero THEN b
    ELSE IF b = FZero THEN a
    ELSE RoundSig(BAdd(a, b), FALSE)

\* a * b (x * 0 is 0)
FMul(a, b) ==
    IF a = FZero \/ b = FZero THEN FZero
    ELSE BShr(RoundSig(BMul(a, b), FALSE), LimbBits * FracLimbs)

FLe(a, b) == BCmp(a, b) <= 0
FLt(a, b) == BCmp(a, b) < 0
FGe(a, b) == BCmp(a, b) >= 0
FGt(a, b) == BCmp(a, b) > 0
FMin(a, b) == IF FLt(b, a) THEN b ELSE a

\* round(x, 2) in hundredths: the integer nearest to 100 * x, an exact tie
\* going to the even neighbour (Python rounds the exact binary value).
Round2(x) ==
    LET h    == BMulSmall(x, 100)
        q    == BShr(h, LimbBits * FracLimbs)
        r    == BLow(h, LimbBits * FracLimbs)
        half == BShl(BOne, LimbBits * FracLimbs - 1)
        c    == BCmp(r, half)
        qi   == IF q = <<>> THEN 0 ELSE q[1]
    IN  IF c = 1 \/ (c = 0 /\ qi % 2 = 1) THEN qi + 1 ELSE qi

\* The floats of the two-decimal literals 0.00 .. 1.00.
Hundredths == [h \in 0..100 |-> FLit(h, 100)]

\* The float that round(x, 2) returns, from its hundredths.
FHundredths(h) == Hundredths[h]

\* ------------------------------------------------------------------ text

Lowercase == "abcdefghijklmnopqrstuvwxyz"
Uppercase == "ABCDEFGHIJKLMNOPQRSTUVWXYZ"
DigitsUnderscore == "0123456789_"

CharAt(s, i) == SubSeq(s, i, i)
CharsOf(s) == {CharAt(s, i) : i \in 1..Len(s)}

\* The characters \w matches.
WordChars == CharsOf(Lowercase) \cup CharsOf(Uppercase) \cup CharsOf(DigitsUnderscore)

LowerChar(c) ==
    IF c \in CharsOf(Uppercase)
    THEN CharAt(Lowercase, CHOOSE i \in 1..Len(Uppercase) : CharAt(Uppercase, i) = c)
    ELSE c

\* str.lower(), by halves (the recursion stays shallow)
RECURSIVE lower(_)
lower(s) ==
    IF Len(s) = 0 THEN ""
    ELSE IF Len(s) = 1 THEN LowerChar(s)
    ELSE lower(SubSeq(s, 1, Len(s) \div 2)) \o lower(SubSeq(s, Len(s) \div 2 + 1, Len(s)))

\* The maximal runs in s of characters that are in chars (inside) or are not
\* in chars (~inside), in order.
InRun(c, chars, inside) == (c \in chars) = inside
RunStarts(s, chars, inside) ==
    {i \in 1..Len(s) : InRun(CharAt(s, i), chars, inside)
                        /\ (i = 1 \/ ~InRun(CharAt(s, i - 1), chars, inside))}
RunEnd(s, chars, inside, i) ==
    CHOOSE j \in i..Len(s) :
        /\ \A k \in i..j : InRun(CharAt(s, k), chars, inside)
        /\ (j = Len(s) \/ ~InRun(CharAt(s, j + 1), chars, inside))
Runs(s, chars, inside) ==
    LET starts == RunStarts(s, chars, inside)
        nth(n) == CHOOSE i \in starts : Cardinality({j \in starts : j < i}) = n - 1
    IN  [n \in 1..Cardinality(starts) |-> SubSeq(s, nth(n), RunEnd(s, chars, inside, nth(n)))]

\* re.findall(r'\b\w+\b', s): the maximal runs of word characters, in order.
find_words(s) == Runs(s, WordChars, TRUE)

\* name.replace('-', ' ').split()
split_name(name) == Runs(name, {"-", " "}, FALSE)

\* a in b, for strings
Contains(b, a) == \E i \in 0..(Len(b) - Len(a)) : SubSeq(b, i + 1, i + Len(a)) = a

Range(s) == {s[i] : i \in 1..Len(s)}

\* str.startswith(prefix), str.endswith(suffix)
StartsWith(str, prefix) == Len(str) >= Len(prefix) /\ SubSeq(str, 1, Len(prefix)) = prefix
EndsWith(str, suffix) ==
    Len(str) >= Len(suffix) /\ SubSeq(str, Len(str) - Len(suffix) + 1, Len(str)) = suffix

\* --------------------------------------------------------- configuration

STOP_WORDS ==
    {
        "a", "able", "about", "actually", "agent", "all", "also", "an",
        "and", "any", "are", "as", "at", "be", "been", "being", "but", "by",
        "can", "could", "did", "do", "does", "even", "for", "from", "get",
        "give", "go", "going", "had", "has", "have", "he", "help", "her",
        "him", "how", "i", "if", "in", "into", "is", "it", "its", "just",
        "let", "like", "may", "me", "might", "more", "most", "must", "my",
        "need", "no", "not", "now", "of", "on", "only", "or", "other", "our",
        "please", "really", "run", "she", "should", "show", "skill", "so",
        "some", "tell", "that", "the", "them", "then", "these", "they",
        "thing", "things", "this", "those", "to", "tool", "try", "us", "use",
        "used", "using", "very", "want", "was", "way", "we", "were", "what",
        "when", "where", "which", "who", "why", "will", "with", "work",
        "would", "you", "your"
    }

SYNONYM_MAP ==
    "ast" :> <<"treesitter", "syntax", "parse", "structure">> @@
    "codebase" :> <<"code", "project", "repository", "source">> @@
    "functions" :> <<"methods", "definitions", "symbols">> @@
    "classes" :> <<"types", "definitions", "structure">> @@
    "symbols" :> <<"definitions", "functions", "classes", "exports">> @@
    "branch" :> <<"git", "commit", "merge", "checkout">> @@
    "commit" :> <<"git", "version", "push", "branch", "changes">> @@
    "merge" :> <<"git", "branch", "commit", "rebase">> @@
    "push" :> <<"git", "commit", "remote", "branch">> @@
    "rebase" :> <<"git", "branch", "commit", "history">> @@
    "stash" :> <<"git", "changes", "temporary">> @@
    "worktree" :> <<"git", "branch", "workspace", "isolation">> @@
    "git" :> <<"commit", "branch", "version", "push", "merge", "worktree">> @@
    "pull" :> <<"git", "fetch", "merge", "remote">> @@
    "clone" :> <<"git", "repository", "download">> @@
    "context" :> <<"memory", "session", "save">> @@
    "remember" :> <<"memory", "context", "save", "store">> @@
    "save" :> <<"context", "memory", "preserve", "store">> @@
    "recall" :> <<"memory", "search", "find", "retrieve">> @@
    "forget" :> <<"memory", "delete", "remove">> @@
    "checkpoint" :> <<"memory", "save", "restore", "backup">> @@
    "history" :> <<"memory", "context", "past", "previous">> @@
    "session" :> <<"memory", "context", "conversation">> @@
    "preserve" :> <<"memory", "save", "context", "store">> @@
    "store" :> <<"memory", "save", "context", "persist">> @@
    "doc" :> <<"documentation", "explain", "describe", "markdown">> @@
    "docs" :> <<"documentation", "explain", "describe", "markdown">> @@
    "document" :> <<"documentation", "markdown", "write">> @@
    "write" :> <<"documentation", "create", "generate">> @@
    "readme" :> <<"documentation", "markdown", "explain">> @@
    "flowchart" :> <<"documentation", "diagram", "ascii">> @@
    "diagram" :> <<"documentation", "flowchart", "visual">> @@
    "plan" :> <<"spec", "architect", "design", "roadmap", "breakdown">> @@
    "spec" :> <<"specification", "plan", "document", "folder">> @@
    "folder" :> <<"spec", "directory", "create", "organize">> @@
    "scaffold" :> <<"create", "generate", "new", "template">> @@
    "template" :> <<"scaffold", "create", "generate">> @@
    "bug" :> <<"debug", "error", "issue", "defect", "verification">> @@
    "console" :> <<"chrome", "browser", "debug", "log">> @@
    "devtools" :> <<"chrome", "browser", "debug", "inspect">> @@
    "network" :> <<"chrome", "browser", "requests", "debug">> @@
    "inspect" :> <<"chrome", "browser", "debug", "devtools">> @@
    "breakpoint" :> <<"debug", "chrome", "devtools">> @@
    "error" :> <<"bug", "debug", "fix", "issue">> @@
    "issue" :> <<"bug", "debug", "error", "problem">> @@
    "find" :> <<"search", "locate", "explore", "lookup">> @@
    "search" :> <<"find", "locate", "explore", "query", "lookup">> @@
    "where" :> <<"find", "search", "locate", "navigate">> @@
    "lookup" :> <<"find", "search", "locate">> @@
    "explore" :> <<"search", "find", "navigate", "discover">> @@
    "navigate" :> <<"find", "search", "locate", "goto">> @@
    "locate" :> <<"find", "search", "where">> @@
    "create" :> <<"implement", "build", "generate", "new", "add", "scaffold">> @@
    "make" :> <<"create", "implement", "build", "generate">> @@
    "new" :> <<"create", "implement", "scaffold", "generate">> @@
    "add" :> <<"create", "implement", "new", "insert">> @@
    "build" :> <<"create", "implement", "generate">> @@
    "generate" :> <<"create", "build", "scaffold">> @@
    "check" :> <<"verify", "validate", "test">> @@
    "fix" :> <<"debug", "correct", "resolve", "code", "implementation">> @@
    "refactor" :> <<"structure", "organize", "clean", "improve", "code">> @@
    "test" :> <<"verify", "validate", "check", "spec", "quality">> @@
    "verify" :> <<"check", "validate", "test", "confirm">> @@
    "validate" :> <<"check", "verify", "test">> @@
    "help" :> <<"guide", "assist", "documentation", "explain">> @@
    "how" :> <<"understand", "explain", "works", "meaning">> @@
    "what" :> <<"definition", "structure", "outline", "list">> @@
    "why" :> <<"understand", "explain", "reason", "purpose">> @@
    "explain" :> <<"understand", "how", "works", "describe">> @@
    "understand" :> <<"how", "explain", "learn", "works">> @@
    "works" :> <<"how", "understand", "explain", "function">> @@
    "show" :> <<"list", "display", "outline", "tree">> @@
    "list" :> <<"show", "display", "enumerate">> @@
    "display" :> <<"show", "list", "output">> @@
    "print" :> <<"show", "display", "output">>

INTENT_BOOSTERS ==
    "checkpoint" :> <<"system-spec-kit", 6>> @@
    "context" :> <<"system-spec-kit", 6>> @@
    "forget" :> <<"system-spec-kit", 4>> @@
    "history" :> <<"system-spec-kit", 4>> @@
    "memory" :> <<"system-spec-kit", 8>> @@
    "preserve" :> <<"system-spec-kit", 5>> @@
    "recall" :> <<"system-spec-kit", 6>> @@
    "remember" :> <<"system-spec-kit", 6>> @@
    "restore" :> <<"system-spec-kit", 4>> @@
    "session" :> <<"system-spec-kit", 4>> @@
    "store" :> <<"system-spec-kit", 4>> @@
    "checklist" :> <<"system-spec-kit", 5>> @@
    "folder" :> <<"system-spec-kit", 4>> @@
    "plan" :> <<"system-spec-kit", 5>> @@
    "scaffold" :> <<"system-spec-kit", 4>> @@
    "spec" :> <<"system-spec-kit", 6>> @@
    "specification" :> <<"system-spec-kit", 5>> @@
    "speckit" :> <<"system-spec-kit", 8>> @@
    "task" :> <<"system-spec-kit", 3>> @@
    "tasks" :> <<"system-spec-kit", 4>> @@
    "git" :> <<"workflows-git", 10>> @@
    "branch" :> <<"workflows-git", 4>> @@
    "checkout" :> <<"workflows-git", 5>> @@
    "clone" :> <<"workflows-git", 5>> @@
    "commit" :> <<"workflows-git", 5>> @@
    "diff" :> <<"workflows-git", 5>> @@
    "fetch" :> <<"workflows-git", 4>> @@
    "gh" :> <<"workflows-git", 15>> @@
    "github" :> <<"workflows-git", 20>> @@
    "issue" :> <<"workflows-git", 8>> @@
    "log" :> <<"workflows-git", 4>> @@
    "merge" :> <<"workflows-git", 5>> @@
    "pr" :> <<"workflows-git", 8>> @@
    "pull" :> <<"workflows-git", 5>> @@
    "push" :> <<"workflows-git", 5>> @@
    "rebase" :> <<"workflows-git", 8>> @@
    "repo" :> <<"workflows-git", 6>> @@
    "repository" :> <<"workflows-git", 5>> @@
    "review" :> <<"workflows-git", 8>> @@
    "stash" :> <<"workflows-git", 5>> @@
    "worktree" :> <<"workflows-git", 12>> @@
    "bdg" :> <<"workflows-chrome-devtools", 10>> @@
    "breakpoint" :> <<"workflows-chrome-devtools", 6>> @@
    "browser" :> <<"workflows-chrome-devtools", 12>> @@
    "chrome" :> <<"workflows-chrome-devtools", 10>> @@
    "console" :> <<"workflows-chrome-devtools", 10>> @@
    "css" :> <<"workflows-chrome-devtools", 4>> @@
    "debug" :> <<"workflows-chrome-devtools", 6>> @@
    "debugger" :> <<"workflows-chrome-devtools", 10>> @@
    "devtools" :> <<"workflows-chrome-devtools", 12>> @@
    "dom" :> <<"workflows-chrome-devtools", 5>> @@
    "elements" :> <<"workflows-chrome-devtools", 5>> @@
    "inspect" :> <<"workflows-chrome-devtools", 10>> @@
    "network" :> <<"workflows-chrome-devtools", 8>> @@
    "performance" :> <<"workflows-chrome-devtools", 5>> @@
    "screenshot" :> <<"workflows-chrome-devtools", 5>> @@
    "ascii" :> <<"workflows-documentation", 4>> @@
    "diagram" :> <<"workflows-documentation", 4>> @@
    "document" :> <<"workflows-documentation", 5>> @@
    "documentation" :> <<"workflows-documentation", 6>> @@
    "flowchart" :> <<"workflows-documentation", 7>> @@
    "markdown" :> <<"workflows-documentation", 5>> @@
    "readme" :> <<"workflows-documentation", 5>> @@
    "template" :> <<"workflows-documentation", 4>> @@
    "bug" :> <<"workflows-code", 5>> @@
    "error" :> <<"workflows-code", 4>> @@
    "implement" :> <<"workflows-code", 6>> @@
    "refactor" :> <<"workflows-code", 5>> @@
    "verification" :> <<"workflows-code", 5>> @@
    "opencode" :> <<"workflows-code--opencode", 20>> @@
    "mcp" :> <<"workflows-code--opencode", 15>> @@
    "python" :> <<"workflows-code--opencode", 10>> @@
    "shell" :> <<"workflows-code--opencode", 10>> @@
    "bash" :> <<"workflows-code--opencode", 10>> @@
    "jsonc" :> <<"workflows-code--opencode", 15>> @@
    "shebang" :> <<"workflows-code--opencode", 12>> @@
    "snake_case" :> <<"workflows-code--opencode", 10>> @@
    "docstring" :> <<"workflows-code--opencode", 8>> @@
    "jsdoc" :> <<"workflows-code--opencode", 8>> @@
    "commonjs" :> <<"workflows-code--opencode", 10>> @@
    "require" :> <<"workflows-code--opencode", 6>> @@
    "strict" :> <<"workflows-code--opencode", 5>> @@
    "clickup" :> <<"mcp-code-mode", 25>> @@
    "cms" :> <<"mcp-code-mode", 5>> @@
    "component" :> <<"mcp-code-mode", 4>> @@
    "external" :> <<"mcp-code-mode", 4>> @@
    "figma" :> <<"mcp-code-mode", 25>> @@
    "notion" :> <<"mcp-code-mode", 25>> @@
    "page" :> <<"mcp-code-mode", 4>> @@
    "pages" :> <<"mcp-code-mode", 4>> @@
    "site" :> <<"mcp-code-mode", 6>> @@
    "sites" :> <<"mcp-code-mode", 6>> @@
    "typescript" :> <<"mcp-code-mode", 4>> @@
    "utcp" :> <<"mcp-code-mode", 8>> @@
    "webflow" :> <<"mcp-code-mode", 25>>

MULTI_SKILL_BOOSTERS ==
    "api" :> <<<<"mcp-code-mode", 3>>>> @@
    "changes" :> <<<<"workflows-git", 4>>, <<"system-spec-kit", 2>>>> @@
    "code" :> <<<<"workflows-code", 2>>, <<"workflows-code--opencode", 1>>>> @@
    "context" :> <<<<"system-spec-kit", 4>>>> @@
    "fix" :> <<<<"workflows-code", 3>>, <<"workflows-git", 1>>>> @@
    "mcp" :> <<<<"mcp-code-mode", 3>>, <<"workflows-code--opencode", 4>>>> @@
    "plan" :> <<<<"system-spec-kit", 3>>, <<"workflows-code", 2>>>> @@
    "save" :> <<<<"system-spec-kit", 4>>, <<"workflows-git", 2>>>> @@
    "script" :> <<<<"workflows-code--opencode", 4>>>> @@
    "server" :> <<<<"workflows-code--opencode", 3>>, <<"mcp-code-mode", 2>>>> @@
    "session" :> <<<<"system-spec-kit", 5>>>> @@
    "standards" :> <<<<"workflows-code--opencode", 4>>, <<"workflows-code", 2>>>> @@
    "style" :> <<<<"workflows-code--opencode", 3>>, <<"workflows-code", 2>>>> @@
    "test" :> <<<<"workflows-code", 3>>, <<"workflows-chrome-devtools", 2>>>> @@
    "update" :> <<<<"mcp-code-mode", 3>>, <<"workflows-git", 2>>, <<"workflows-code", 2>>>>

\* The decimal literals of the scoring code, as floats.
F_0_0  == FZero
F_0_10 == FLit(10, 100)
F_0_15 == FLit(15, 100)
F_0_25 == FLit(25, 100)
F_0_30 == FLit(30, 100)
F_0_35 == FLit(35, 100)
F_0_40 == FLit(40, 100)
F_0_50 == FLit(50, 100)
F_0_70 == FLit(70, 100)
F_0_8  == FLit(8, 10)
F_0_95 == FLit(95, 100)
F_0_5  == FLit(5, 10)
F_1_0  == FLit(10, 10)
F_1_5  == FLit(15, 10)

\* The floats of the one-decimal literals 0.0 .. 3.0.
Tenths == [t \in 0..30 |-> FLit(t, 10)]

\* A boost amount of the tables, written there in tenths.
Boost(t) == Tenths[t]

\* ------------------------------------------------------------ dictionaries

\* A dict is a function on its keys; the empty dict is <<>>.
EmptyDict == <<>>
DictGet(d, k, default) == IF k \in DOMAIN d THEN d[k] ELSE default
DictPut(d, k, v) == (k :> v) @@ d

\* ------------------------------------------------------------ skill loading

\* What parse_frontmatter yields for a SKILL.md file: None (no frontmatter
\* block, or the file cannot be read) or the dict of the block's
\* "key: value" lines.
None == [is_none |-> TRUE, data |-> EmptyDict]
Meta(data) == [is_none |-> FALSE, data |-> data]

\* doc_type=None: no --type on the command line.
Untyped == [is_none |-> TRUE, data |-> ""]

\* The catalog is a dict in insertion order: a sequence of entries with
\* distinct names; assigning an existing name keeps its position.
\* A faulty variant of SkillsPut: a list of entries, not a dict.
SkillsAppend(skills, name, config) == Append(skills, [name |-> name, config |-> config])

RECURSIVE SkillsPut(_, _, _)
SkillsPut(skills, name, config) ==
    IF Len(skills) = 0 THEN <<[name |-> name, config |-> config]>>
    ELSE IF skills[1].name = name
    THEN <<[name |-> name, config |-> config]>> \o SubSeq(skills, 2, Len(skills))
    ELSE <<skills[1]>> \o SkillsPut(SubSeq(skills, 2, Len(skills)), name, config)

\* A faulty variant of ScanSkillFiles: a file with a name and no
\* description ends the scan.
RECURSIVE ScanSkillFilesAborting(_, _, _)
ScanSkillFilesAborting(files, i, skills) ==
    IF i > Len(files) THEN skills
    ELSE LET meta == files[i]
         IN  IF ~meta.is_none /\ DOMAIN meta.data # {} /\ "name" \in DOMAIN meta.data
             THEN IF "description" \in DOMAIN meta.data
                  THEN ScanSkillFilesAborting(files, i + 1,
                           SkillsPut(skills, meta.data["name"],
                                     [description |-> meta.data["description"],
                                      weight |-> F_1_0]))
                  ELSE skills
             ELSE ScanSkillFilesAborting(files, i + 1, skills)

RECURSIVE ScanSkillFiles(_, _, _)
ScanSkillFiles(files, i, skills) ==
    IF i > Len(files) THEN skills
    ELSE LET meta == files[i]
         IN  IF ~meta.is_none /\ DOMAIN meta.data # {} /\ "name" \in DOMAIN meta.data
             THEN ScanSkillFiles(files, i + 1,
                      SkillsPut(skills, meta.data["name"],
                                [description |-> DictGet(meta.data, "description", ""),
                                 weight |-> F_1_0]))
             ELSE ScanSkillFiles(files, i + 1, skills)

\* A faulty variant of get_skills: the command bridges are left out.
get_skills_scanned_only(exists, files) ==
    IF exists THEN ScanSkillFiles(files, 1, <<>>) ELSE <<>>

\* get_skills(): exists is os.path.exists(SKILLS_DIR), files the parsed
\* SKILL.md files in glob order.
get_skills(exists, files) ==
    LET scanned == IF exists THEN ScanSkillFiles(files, 1, <<>>) ELSE <<>>
        bridge1 == SkillsPut(scanned, "command-spec-kit",
                     [description |-> "Create specifications and plans using /spec_kit slash command for new features or complex changes.",
                      weight |-> F_1_0])
    IN  SkillsPut(bridge1, "command-memory-save",
                  [description |-> "Save conversation context to memory using /memory:save.",
                   weight |-> F_1_0])

\* A faulty variant of expand_query: the synonyms are expanded in turn.
expand_query_recursive(prompt_tokens) ==
    LET once == Range(prompt_tokens) \cup
                UNION {Range(SYNONYM_MAP[token]) :
                         token \in Range(prompt_tokens) \cap DOMAIN SYNONYM_MAP}
    IN  once \cup UNION {Range(SYNONYM_MAP[token]) : token \in once \cap DOMAIN SYNONYM_MAP}

\* expand_query(prompt_tokens), as the set it lists
expand_query(prompt_tokens) ==
    Range(prompt_tokens) \cup
    UNION {Range(SYNONYM_MAP[token]) : token \in Range(prompt_tokens) \cap DOMAIN SYNONYM_MAP}

\* ------------------------------------------------------------------ scoring

\* A faulty variant of calculate_confidence: no clamping.
calculate_confidence_unclamped(score, has_intent_boost, weight) ==
    LET confidence == IF has_intent_boost
                      THEN FAdd(F_0_50, FMul(score, F_0_15))
                      ELSE FAdd(F_0_25, FMul(score, F_0_15))
    IN  FMul(confidence, weight)

\* A faulty variant of calculate_confidence: the boosted curve for every
\* skill.
calculate_confidence_boosted(score, has_intent_boost, weight) ==
    FMin(FMul(FMin(FAdd(F_0_50, FMul(score, F_0_15)), F_0_95), weight), F_1_0)

\* A faulty variant of calculate_confidence: one curve for every skill.
calculate_confidence_flat(score, has_intent_boost, weight) ==
    FMin(FMul(FMin(FAdd(F_0_25, FMul(score, F_0_15)), F_0_95), weight), F_1_0)

calculate_confidence(score, has_intent_boost, weight) ==
    LET confidence == IF has_intent_boost
                      THEN FMin(FAdd(F_0_50, FMul(score, F_0_15)), F_0_95)
                      ELSE FMin(FAdd(F_0_25, FMul(score, F_0_15)), F_0_95)
    IN  FMin(FMul(confidence, weight), F_1_0)

\* A faulty variant of calculate_uncertainty: a missing intent boost costs
\* nothing.
calculate_uncertainty_no_penalty(num_matches, has_intent_boost, num_ambiguous_matches) ==
    LET base_uncertainty  == IF num_matches >= 5 THEN F_0_15
                             ELSE IF num_matches >= 3 THEN F_0_25
                             ELSE IF num_matches >= 1 THEN F_0_40
                             ELSE F_0_70
        ambiguity_penalty == FMin(FMul(FInt(num_ambiguous_matches), F_0_10), F_0_30)
        uncertainty       == FMin(FAdd(FAdd(base_uncertainty, F_0_0), ambiguity_penalty), F_1_0)
    IN  Round2(uncertainty)

\* A faulty variant of calculate_uncertainty: the ambiguity penalty is not
\* capped.
calculate_uncertainty_uncapped(num_matches, has_intent_boost, num_ambiguous_matches) ==
    LET base_uncertainty  == IF num_matches >= 5 THEN F_0_15
                             ELSE IF num_matches >= 3 THEN F_0_25
                             ELSE IF num_matches >= 1 THEN F_0_40
                             ELSE F_0_70
        intent_penalty    == IF has_intent_boost THEN F_0_0 ELSE F_0_15
        ambiguity_penalty == FMul(FInt(num_ambiguous_matches), F_0_10)
        uncertainty       == FMin(FAdd(FAdd(base_uncertainty, intent_penalty), ambiguity_penalty), F_1_0)
    IN  Round2(uncertainty)

\* The result of round(uncertainty, 2), in hundredths.
calculate_uncertainty(num_matches, has_intent_boost, num_ambiguous_matches) ==
    LET base_uncertainty  == IF num_matches >= 5 THEN F_0_15
                             ELSE IF num_matches >= 3 THEN F_0_25
                             ELSE IF num_matches >= 1 THEN F_0_40
                             ELSE F_0_70
        intent_penalty    == IF has_intent_boost THEN F_0_0 ELSE F_0_15
        ambiguity_penalty == FMin(FMul(FInt(num_ambiguous_matches), F_0_10), F_0_30)
        uncertainty       == FMin(FAdd(FAdd(base_uncertainty, intent_penalty), ambiguity_penalty), F_1_0)
    IN  Round2(uncertainty)

\* passes_dual_threshold with its default thresholds
passes_dual_threshold(confidence, uncertainty) ==
    FGe(confidence, F_0_8) /\ FLe(uncertainty, F_0_35)

\* ----------------------------------------------------------------- analysis

\* A faulty variant of BoostSingle: the boost is assigned, not accumulated.
BoostSingleOverwrite(st, token) ==
    IF token \in DOMAIN INTENT_BOOSTERS
    THEN LET skill == INTENT_BOOSTERS[token][1]
             boost == Boost(INTENT_BOOSTERS[token][2])
         IN  [boost_reasons |-> DictPut(st.boost_reasons, skill,
                                   Append(DictGet(st.boost_reasons, skill, <<>>), "!" \o token)),
              skill_boosts  |-> DictPut(st.skill_boosts, skill, boost)]
    ELSE st

\* Lines 515-520: the token's entry in INTENT_BOOSTERS, if any.
BoostSingle(st, token) ==
    IF token \in DOMAIN INTENT_BOOSTERS
    THEN LET skill == INTENT_BOOSTERS[token][1]
             boost == Boost(INTENT_BOOSTERS[token][2])
         IN  [boost_reasons |-> DictPut(st.boost_reasons, skill,
                                   Append(DictGet(st.boost_reasons, skill, <<>>), "!" \o token)),
              skill_boosts  |-> DictPut(st.skill_boosts, skill,
                                   FAdd(DictGet(st.skill_boosts, skill, FZero), boost))]
    ELSE st

\* A faulty variant of BoostMulti: the multi-skill table is not applied.
BoostMultiSkipped(st, token, entries, i) == st

\* A faulty variant of BoostMulti: the boost is assigned, not added.
RECURSIVE BoostMultiOverwrite(_, _, _, _)
BoostMultiOverwrite(st, token, entries, i) ==
    IF i > Len(entries) THEN st
    ELSE BoostMultiOverwrite(
             [boost_reasons |-> DictPut(st.boost_reasons, entries[i][1],
                                   Append(DictGet(st.boost_reasons, entries[i][1], <<>>),
                                          "!" \o token \o "(multi)")),
              skill_boosts  |-> DictPut(st.skill_boosts, entries[i][1], Boost(entries[i][2]))],
             token, entries, i + 1)

\* Lines 522-527: the token's entries in MULTI_SKILL_BOOSTERS, in list order.
RECURSIVE BoostMulti(_, _, _, _)
BoostMulti(st, token, entries, i) ==
    IF i > Len(entries) THEN st
    ELSE LET skill == entries[i][1]
             boost == Boost(entries[i][2])
         IN  BoostMulti(
                 [boost_reasons |-> DictPut(st.boost_reasons, skill,
                                       Append(DictGet(st.boost_reasons, skill, <<>>),
                                              "!" \o token \o "(multi)")),
                  skill_boosts  |-> DictPut(st.skill_boosts, skill,
                                       FAdd(DictGet(st.skill_boosts, skill, FZero), boost))],
                 token, entries, i + 1)

\* A faulty variant of BoostToken: the multi-skill table is looked up only
\* for a token that is not a key of the single-skill table (elif).
BoostTokenEither(st, token) ==
    IF token \in DOMAIN INTENT_BOOSTERS THEN BoostSingle(st, token)
    ELSE IF token \in DOMAIN MULTI_SKILL_BOOSTERS
    THEN BoostMulti(st, token, MULTI_SKILL_BOOSTERS[token], 1)
    ELSE st

\* One iteration of the loop over all_tokens (lines 514-527).
BoostToken(st, token) ==
    LET single == BoostSingle(st, token)
    IN  IF token \in DOMAIN MULTI_SKILL_BOOSTERS
        THEN BoostMulti(single, token, MULTI_SKILL_BOOSTERS[token], 1)
        ELSE single

\* A faulty variant of BoostLoop: stop words and short tokens are skipped.
RECURSIVE BoostLoopFiltered(_, _, _)
BoostLoopFiltered(st, all_toks, i) ==
    IF i > Len(all_toks) THEN st
    ELSE BoostLoopFiltered(IF all_toks[i] \notin STOP_WORDS /\ Len(all_toks[i]) > 2
                           THEN BoostToken(st, all_toks[i]) ELSE st,
                           all_toks, i + 1)

RECURSIVE BoostLoop(_, _, _)
BoostLoop(st, all_toks, i) ==
    IF i > Len(all_toks) THEN st
    ELSE BoostLoop(BoostToken(st, all_toks[i]), all_toks, i + 1)

\* A faulty variant of KeepToken: nothing is filtered.
KeepAnyToken(t) == TRUE

\* Lines 530, 547: the filter on tokens and name parts.
KeepToken(t) == t \notin STOP_WORDS /\ Len(t) > 2

\* Line 530
FilterTokens(all_toks) == SelectSeq(all_toks, KeepToken)

\* Lines 544-546
Corpus(description) == {k \in Range(find_words(lower(description))) : Len(k) > 2 /\ k \notin STOP_WORDS}

\* Lines 543, 547
NamePartsFiltered(name) == SelectSeq(split_name(name), KeepToken)

\* A faulty variant of TermTier: substring matching at any length.
TermTierAnyLength(term, name_parts_filtered, corpus) ==
    IF term \in Range(name_parts_filtered) THEN "name"
    ELSE IF term \in corpus THEN "corpus"
    ELSE IF \E corpus_word \in corpus :
               Contains(corpus_word, term) \/ Contains(term, corpus_word)
         THEN "fuzzy"
    ELSE "none"

\* A faulty variant of TermTier: the corpus is tried before the name.
TermTierCorpusFirst(term, name_parts_filtered, corpus) ==
    IF term \in corpus THEN "corpus"
    ELSE IF term \in Range(name_parts_filtered) THEN "name"
    ELSE IF Len(term) >= 4
            /\ \E corpus_word \in corpus :
                  Len(corpus_word) >= 4
                  /\ (Contains(corpus_word, term) \/ Contains(term, corpus_word))
         THEN "fuzzy"
    ELSE "none"

\* Lines 550-561: the tier a term falls in for a skill.
TermTier(term, name_parts_filtered, corpus) ==
    IF term \in Range(name_parts_filtered) THEN "name"
    ELSE IF term \in corpus THEN "corpus"
    ELSE IF Len(term) >= 4
            /\ \E corpus_word \in corpus :
                  Len(corpus_word) >= 4
                  /\ (Contains(corpus_word, term) \/ Contains(term, corpus_word))
         THEN "fuzzy"
    ELSE "none"

TierScore(tier) == IF tier = "name" THEN F_1_5 ELSE IF tier = "corpus" THEN F_1_0 ELSE F_0_5

TierTag(term, tier) ==
    IF tier = "name" THEN term \o "(name)" ELSE IF tier = "corpus" THEN term ELSE term \o "~"

\* A set of strings has no order of its own: CPython lists it in an order
\* fixed by the process's string-hash seed.  Seed 0 lists a set in one base
\* order and seed k in that order rotated by k places.
RECURSIVE BaseOrder(_)
BaseOrder(S) == IF S = {} THEN <<>>
                ELSE LET e == CHOOSE m \in S : TRUE
                     IN  <<e>> \o BaseOrder(S \ {e})

ListOrder(S, seed) ==
    LET base == BaseOrder(S)
        n    == Len(base)
        k    == IF n = 0 THEN 0 ELSE seed % n
    IN  SubSeq(base, k + 1, n) \o SubSeq(base, 1, k)

\* The loop over search_terms (lines 549-561), in the order the list holds
\* them.
RECURSIVE ScoreTerms(_, _, _, _, _)
ScoreTerms(acc, order, i, name_parts_filtered, corpus) ==
    IF i > Len(order) THEN acc
    ELSE LET tier == TermTier(order[i], name_parts_filtered, corpus)
             next == IF tier = "none" THEN acc
                     ELSE [matches |-> Append(acc.matches, TierTag(order[i], tier)),
                           score   |-> FAdd(acc.score, TierScore(tier))]
         IN  ScoreTerms(next, order, i + 1, name_parts_filtered, corpus)

ReasonLimit == 5

\* ', '.join(parts)
RECURSIVE JoinComma(_)
JoinComma(parts) ==
    IF Len(parts) = 0 THEN ""
    ELSE IF Len(parts) = 1 THEN parts[1]
    ELSE parts[1] \o ", " \o JoinComma(SubSeq(parts, 2, Len(parts)))

\* Line 587: the reason string of listed, the deduplicated matches as listed.
Reason(listed) ==
    "Matched: " \o JoinComma(SubSeq(listed, 1, IF Len(listed) < ReasonLimit
                                                THEN Len(listed) ELSE ReasonLimit))

\* A faulty variant of CountMulti: every provenance entry counts as
\* ambiguous.
CountMultiAny(matches) == Len(matches)

CountMulti(matches) == Cardinality({i \in 1..Len(matches) : Contains(matches[i], "(multi)")})

\* Lines 563-588 of an iteration, from its locals: what it appends, if it
\* appends.
Appended(name, scored, has_boost, confidence, uncertainty, seed) ==
    IF FGt(scored.score, FZero)
    THEN [name |-> name, score |-> scored.score, matches |-> scored.matches,
          appended |-> TRUE, has_boost |-> has_boost, confidence |-> confidence,
          recommendation |->
              [skill |-> name, confidence |-> Round2(confidence),
               uncertainty |-> uncertainty,
               passes_threshold |-> passes_dual_threshold(confidence, FHundredths(uncertainty)),
               reason |-> Reason(ListOrder(Range(scored.matches), seed))]]
    ELSE [name |-> name, score |-> scored.score, matches |-> scored.matches,
          appended |-> FALSE, has_boost |-> has_boost, confidence |-> FZero,
          recommendation |->
              [skill |-> name, confidence |-> 0, uncertainty |-> 0,
               passes_threshold |-> FALSE, reason |-> ""]]

\* Lines 564-578 of an iteration, from score and matches after the loop over
\* search_terms.
Assess(name, weight, scored, has_boost, seed) ==
    Appended(name, scored, has_boost,
             calculate_confidence(scored.score, has_boost, weight),
             calculate_uncertainty(Len(scored.matches), has_boost, CountMulti(scored.matches)),
             seed)

\* A faulty variant of SkillIteration: has_boost is true only when a
\* single-skill booster fired for the skill.
SkillIterationDirectOnly(name, config, boosts, reasons, terms, seed) ==
    Assess(name, config.weight,
           ScoreTerms([score |-> DictGet(boosts, name, FZero),
                       matches |-> DictGet(reasons, name, <<>>)],
                      terms, 1, NamePartsFiltered(name), Corpus(config.description)),
           \E k \in 1..Len(DictGet(reasons, name, <<>>)) :
               Len(reasons[name][k]) < 7
               \/ SubSeq(reasons[name][k], Len(reasons[name][k]) - 6, Len(reasons[name][k]))
                      # "(multi)",
           seed)

\* One iteration of the loop over skills (lines 539-588); terms is
\* search_terms as a list.  The record holds the iteration's locals.
SkillIteration(name, config, boosts, reasons, terms, seed) ==
    Assess(name, config.weight,
           ScoreTerms([score |-> DictGet(boosts, name, FZero),
                       matches |-> DictGet(reasons, name, <<>>)],
                      terms, 1, NamePartsFiltered(name), Corpus(config.description)),
           FGt(DictGet(boosts, name, FZero), FZero),
           seed)

\* A faulty variant of SkillLoop: search_terms is a list that holds every
\* term twice.
SkillLoopTermsTwice(skills, boosts, reasons, terms, seed) ==
    [i \in 1..Len(skills) |->
        SkillIteration(skills[i].name, skills[i].config, boosts, reasons, terms \o terms, seed)]

\* A faulty variant of SkillLoop: the corpus of an iteration keeps the
\* words of the skill before it.
SkillLoopLeaking(skills, boosts, reasons, terms, seed) ==
    [i \in 1..Len(skills) |->
        SkillIteration(skills[i].name,
                       IF i = 1 THEN skills[i].config
                       ELSE [skills[i].config EXCEPT
                                !.description = skills[i - 1].config.description \o " " \o @],
                       boosts, reasons, terms, seed)]

\* The loop over skills.items(): the locals of every iteration.
SkillLoop(skills, boosts, reasons, terms, seed) ==
    [i \in 1..Len(skills) |->
        SkillIteration(skills[i].name, skills[i].config, boosts, reasons, terms, seed)]

\* A faulty variant of SortByConfidence: the list is returned as built.
Unsorted(recs, i, sorted) == recs

\* sorted(recommendations, key=confidence, reverse=True): stable.
RECURSIVE InsertByConfidence(_, _)
InsertByConfidence(sorted, r) ==
    IF Len(sorted) = 0 THEN <<r>>
    ELSE IF sorted[1].confidence >= r.confidence
    THEN <<sorted[1]>> \o InsertByConfidence(SubSeq(sorted, 2, Len(sorted)), r)
    ELSE <<r>> \o sorted

RECURSIVE SortByConfidence(_, _, _)
SortByConfidence(recs, i, sorted) ==
    IF i > Len(recs) THEN sorted
    ELSE SortByConfidence(recs, i + 1, InsertByConfidence(sorted, recs[i]))

\* A faulty variant of IsAppended: every iteration appends.
AppendedAlways(it) == TRUE

IsAppended(it) == it.appended

\* The list recommendations after the loop.
Recommendations(its) ==
    LET kept == SelectSeq(its, IsAppended)
    IN  [i \in 1..Len(kept) |-> kept[i].recommendation]

\* ------------------------------------------------------------ the program

\* The callers of two concurrent invocations, and the locals of an
\* invocation before its first statement.
Callers == {1, 2}

EmptyFrame == [prompt |-> "", all_tokens |-> <<>>, skill_boosts |-> EmptyDict,
               boost_reasons |-> EmptyDict, tokens |-> <<>>, search_terms |-> <<>>,
               skills |-> <<>>, iterations |-> <<>>, result |-> <<>>]

MaxTokens == 3
MaxSeed == 1
MaxMatches == 8
MaxAmbiguous == 5

\* What a request is made of.
Lexemes == {"Git", "gh", "work-x", "test", "debug", "browser"}

RECURSIVE Join(_)
Join(words) == IF Len(words) = 0 THEN ""
               ELSE IF Len(words) = 1 THEN words[1]
               ELSE words[1] \o " " \o Join(SubSeq(words, 2, Len(words)))

Prompts == {Join(words) : words \in UNION {[1..n -> Lexemes] : n \in 0..MaxTokens}}

\* SKILL.md files a skills directory may hold.
GitFile    == Meta([name |-> "workflows-git",
                    description |-> "Git workflows: version control operations including commit, branch, and merge"])
OldGitFile == Meta([name |-> "workflows-git", description |-> "Branching helpers"])
ChromeFile == Meta([name |-> "workflows-chrome-devtools"])

Disks == {<<GitFile>>, <<ChromeFile, OldGitFile, None, GitFile>>}

VARIABLES
    dir_exists,     \* os.path.exists(SKILLS_DIR)
    skill_files,    \* what parse_frontmatter yields for each SKILL.md, in glob order
    hash_seed,      \* the string-hash seed of the process
    pc,             \* "idle", "done", "again"
    prompt,
    all_tokens, skill_boosts, boost_reasons, tokens, search_terms,
    skills,         \* what get_skills returned
    iterations,     \* the locals of each iteration of the loop over skills
    result,         \* what analyze_request returned
    calls,          \* how many times the request was analysed
    previous,       \* what the call before returned
    upc,            \* "idle", "done": a direct call of calculate_uncertainty
    arg_matches, arg_boost, arg_ambiguous,   \* its arguments
    returned,       \* what it returned, in hundredths
    cpc,            \* "idle", "done": a direct call of calculate_confidence
    arg_score, arg_has_boost,                \* its arguments, the weight being 1.0
    conf_returned,  \* what it returned
    mpc,            \* "idle", "done": the filtering of the command line
    arg_threshold, arg_uncertainty,          \* --threshold, --uncertainty as typed, in hundredths
    arg_show_rejections,                     \* --show-rejections
    emitted,        \* the list that is printed
    asked,          \* the request each concurrent caller passes
    at,             \* where each concurrent caller is in analyze_request
    frames,         \* the locals of each concurrent invocation
    answers,        \* what each concurrent invocation returned
    vpc,            \* "idle", "done": a call of validate_document
    arg_file_path, arg_doc_type, arg_skip_exclusions,   \* its arguments
    file_read,      \* what reading the file gives
    validation      \* what it returned

request_vars == <<hash_seed, pc, prompt, all_tokens, skill_boosts, boost_reasons, tokens,
                  search_terms, skills, iterations, result, calls, previous>>

call_vars == <<upc, arg_matches, arg_boost, arg_ambiguous, returned>>

conf_vars == <<cpc, arg_score, arg_has_boost, conf_returned>>

main_vars == <<mpc, arg_threshold, arg_uncertainty, arg_show_rejections, emitted>>

thread_vars == <<asked, at, frames, answers>>

validate_vars == <<vpc, arg_file_path, arg_doc_type, arg_skip_exclusions, file_read, validation>>

vars == <<dir_exists, skill_files, request_vars, call_vars, conf_vars, main_vars, thread_vars,
          validate_vars>>

Init ==
    /\ dir_exists \in BOOLEAN
    /\ skill_files \in (IF dir_exists THEN Disks ELSE {<<>>})
    /\ hash_seed = 0
    /\ pc = "idle"
    /\ prompt = ""
    /\ all_tokens = <<>>
    /\ skill_boosts = EmptyDict
    /\ boost_reasons = EmptyDict
    /\ tokens = <<>>
    /\ search_terms = <<>>
    /\ skills = <<>>
    /\ iterations = <<>>
    /\ result = <<>>
    /\ calls = 0
    /\ previous = <<>>
    /\ upc = "idle"
    /\ arg_matches = 0
    /\ arg_boost = FALSE
    /\ arg_ambiguous = 0
    /\ returned = 0
    /\ cpc = "idle"
    /\ arg_score = FZero
    /\ arg_has_boost = FALSE
    /\ conf_returned = FZero
    /\ mpc = "idle"
    /\ arg_threshold = 0
    /\ arg_uncertainty = 100
    /\ arg_show_rejections = FALSE
    /\ emitted = <<>>
    /\ asked = [c \in Callers |-> ""]
    /\ at = [c \in Callers |-> "idle"]
    /\ frames = [c \in Callers |-> EmptyFrame]
    /\ answers = [c \in Callers |-> <<>>]
    /\ vpc = "idle"
    /\ arg_file_path = ""
    /\ arg_doc_type = Untyped
    /\ arg_skip_exclusions = FALSE
    /\ file_read = None
    /\ validation = [exit_code |-> 0]

\* analyze_request(p), lines 502-590, in a process with hash seed seed
analyze_request(p, seed) ==
    /\ prompt' = p
    /\ hash_seed' = seed
    /\ IF Len(p) = 0
       THEN /\ all_tokens' = <<>>
            /\ skill_boosts' = EmptyDict
            /\ boost_reasons' = EmptyDict
            /\ tokens' = <<>>
            /\ search_terms' = <<>>
            /\ skills' = <<>>
            /\ iterations' = <<>>
            /\ result' = <<>>
       ELSE /\ all_tokens' = find_words(lower(p))
            /\ LET boosted == BoostLoop([skill_boosts |-> EmptyDict, boost_reasons |-> EmptyDict],
                                        all_tokens', 1)
               IN  /\ skill_boosts' = boosted.skill_boosts
                   /\ boost_reasons' = boosted.boost_reasons
            /\ tokens' = FilterTokens(all_tokens')
            /\ IF Len(tokens') = 0 /\ DOMAIN skill_boosts' = {}
               THEN /\ search_terms' = <<>>
                    /\ skills' = <<>>
                    /\ iterations' = <<>>
                    /\ result' = <<>>
               ELSE /\ search_terms' = (IF Len(tokens') # 0
                                        THEN ListOrder(expand_query(tokens'), seed)
                                        ELSE <<>>)
                    /\ skills' = get_skills(dir_exists, skill_files)
                    /\ iterations' = SkillLoop(skills', skill_boosts', boost_reasons',
                                               search_terms', seed)
                    /\ result' = SortByConfidence(Recommendations(iterations'), 1, <<>>)

\* A request is analysed: a new one, or once more the one analysed before.
Analyze ==
    /\ pc \in {"idle", "again"}
    /\ \E p \in (IF pc = "idle" THEN Prompts ELSE {prompt}), seed \in 0..MaxSeed :
          analyze_request(p, seed)
    /\ pc' = "done"
    /\ calls' = calls + 1
    /\ UNCHANGED <<dir_exists, skill_files, previous, call_vars, conf_vars, main_vars, thread_vars, validate_vars>>

\* The same request is submitted once more, against the same catalog, to
\* another process.
Repeat ==
    /\ pc = "done"
    /\ calls = 1
    /\ pc' = "again"
    /\ previous' = result
    /\ UNCHANGED <<dir_exists, skill_files, hash_seed, prompt, all_tokens, skill_boosts,
                   boost_reasons, tokens, search_terms, skills, iterations, result, calls,
                   call_vars, conf_vars, main_vars, thread_vars, validate_vars>>

Next == Analyze

Spec == Init /\ [][Next]_vars

NextRepeat == Analyze \/ Repeat

SpecRepeat == Init /\ [][NextRepeat]_vars

\* calculate_uncertainty is called on its own.
CallUncertainty ==
    /\ upc = "idle"
    /\ \E n \in 0..MaxMatches, b \in BOOLEAN, a \in 0..MaxAmbiguous :
          /\ arg_matches' = n
          /\ arg_boost' = b
          /\ arg_ambiguous' = a
          /\ returned' = calculate_uncertainty(n, b, a)
    /\ upc' = "done"
    /\ UNCHANGED <<dir_exists, skill_files, request_vars, conf_vars, main_vars, thread_vars, validate_vars>>

NextUncertainty == CallUncertainty

SpecUncertainty == Init /\ [][NextUncertainty]_vars

\* calculate_confidence is called on its own, with the weight 1.0 of every
\* catalog entry.  A score is what the loops accumulate: up to three boosts
\* of the tables added in turn, then corpus increments, which are multiples
\* of 0.5; without a boost it is corpus increments only.
MaxBoost == 12
MaxThirdBoost == 2
MaxHalves == 8

CallConfidence ==
    /\ cpc = "idle"
    /\ \E a \in 0..MaxBoost, b \in 0..MaxBoost, c \in 0..MaxThirdBoost, h \in 0..MaxHalves :
          /\ arg_has_boost' = (a + b + c > 0)
          /\ arg_score' = FAdd(FAdd(FAdd(Boost(a), Boost(b)), Boost(c)), FMul(FInt(h), F_0_5))
          /\ conf_returned' = calculate_confidence(arg_score', arg_has_boost', F_1_0)
    /\ cpc' = "done"
    /\ UNCHANGED <<dir_exists, skill_files, request_vars, call_vars, main_vars, thread_vars, validate_vars>>

NextConfidence == CallConfidence

SpecConfidence == Init /\ [][NextConfidence]_vars

\* ------------------------------------------------------ the command line

\* A faulty variant of FilterConfidence: the floor itself is excluded.
FilterConfidenceStrict(results, threshold) ==
    LET Above(r) == FGt(FHundredths(r.confidence), threshold)
    IN  IF FGt(threshold, FZero) THEN SelectSeq(results, Above) ELSE results

\* Lines 659-660; a recommendation holds its confidence as the float of the
\* rounded value.
FilterConfidence(results, threshold) ==
    LET AtLeast(r) == FGe(FHundredths(r.confidence), threshold)
    IN  IF FGt(threshold, FZero) THEN SelectSeq(results, AtLeast) ELSE results

\* Lines 663-664
FilterUncertainty(results, uncertainty) ==
    LET AtMost(r) == FLe(FHundredths(r.uncertainty), uncertainty)
    IN  IF FLt(uncertainty, F_1_0) THEN SelectSeq(results, AtMost) ELSE results

\* Lines 667-668
FilterRejections(results, show_rejections) ==
    LET Passes(r) == r.passes_threshold
    IN  IF ~show_rejections THEN SelectSeq(results, Passes) ELSE results

\* The values typed for --threshold and --uncertainty, in hundredths;
\* argparse converts them with float().
Thresholds == {0, 80}
Uncertainties == {35, 100}

\* Lines 656-670 of the command line, after analyze_request returned: the
\* three filters in turn, then the list is printed.
Emit ==
    /\ pc = "done"
    /\ mpc = "idle"
    /\ \E t \in Thresholds, u \in Uncertainties, show \in BOOLEAN :
          /\ arg_threshold' = t
          /\ arg_uncertainty' = u
          /\ arg_show_rejections' = show
          /\ emitted' = FilterRejections(
                            FilterUncertainty(
                                FilterConfidence(result, FHundredths(t)),
                                FHundredths(u)),
                            show)
    /\ mpc' = "done"
    /\ UNCHANGED <<dir_exists, skill_files, request_vars, call_vars, conf_vars, thread_vars, validate_vars>>

NextMain == Analyze \/ Emit

SpecMain == Init /\ [][NextMain]_vars

\* ------------------------------------------------ concurrent invocations

\* Two threads of one process call analyze_request, each with a request of
\* its own; the interpreter switches between them between statements.  The
\* module-level tables and the skills directory are only read (no
\* statement of the source assigns or mutates them), the rest of what a
\* statement reads and writes is local to its invocation.

ThreadPrompts == {"", "Git", "gh test", "browser debug"}

\* What the concurrent invocations leave alone.
other_vars == <<dir_exists, skill_files, request_vars, call_vars, conf_vars, main_vars,
                validate_vars>>

\* A faulty variant of Frame: the locals are module-level, one set for all
\* invocations.
SharedFrame(self) == 1

\* The locals an invocation reads and writes: its own.
Frame(self) == self

\* The caller passes its request (line 502).
Call(self) ==
    /\ at[self] = "idle"
    /\ \E p \in ThreadPrompts :
          /\ asked' = [asked EXCEPT ![self] = p]
          /\ frames' = [frames EXCEPT ![Frame(self)] = [EmptyFrame EXCEPT !.prompt = p]]
    /\ at' = [at EXCEPT ![self] = "tokenize"]
    /\ UNCHANGED answers
    /\ UNCHANGED other_vars

\* Lines 504-508
Tokenize(self) ==
    /\ at[self] = "tokenize"
    /\ LET F == frames[Frame(self)]
       IN  IF Len(F.prompt) = 0
           THEN /\ answers' = [answers EXCEPT ![self] = <<>>]
                /\ at' = [at EXCEPT ![self] = "done"]
                /\ UNCHANGED frames
           ELSE /\ frames' = [frames EXCEPT ![Frame(self)] =
                                 [F EXCEPT !.all_tokens = find_words(lower(F.prompt))]]
                /\ at' = [at EXCEPT ![self] = "boost"]
                /\ UNCHANGED answers
    /\ UNCHANGED asked
    /\ UNCHANGED other_vars

\* Lines 512-527
BoostStep(self) ==
    /\ at[self] = "boost"
    /\ \E boosted \in {BoostLoop([skill_boosts |-> EmptyDict, boost_reasons |-> EmptyDict],
                                   frames[Frame(self)].all_tokens, 1)} :
          frames' = [frames EXCEPT ![Frame(self)] =
                        [frames[Frame(self)] EXCEPT !.skill_boosts = boosted.skill_boosts,
                                                    !.boost_reasons = boosted.boost_reasons]]
    /\ at' = [at EXCEPT ![self] = "filter"]
    /\ UNCHANGED <<asked, answers>>
    /\ UNCHANGED other_vars

\* Lines 530-535
FilterStep(self) ==
    /\ at[self] = "filter"
    /\ \E kept \in {FilterTokens(frames[Frame(self)].all_tokens)} :
          IF Len(kept) = 0 /\ DOMAIN frames[Frame(self)].skill_boosts = {}
          THEN /\ answers' = [answers EXCEPT ![self] = <<>>]
               /\ at' = [at EXCEPT ![self] = "done"]
               /\ frames' = [frames EXCEPT ![Frame(self)] =
                                [frames[Frame(self)] EXCEPT !.tokens = kept]]
          ELSE /\ frames' = [frames EXCEPT ![Frame(self)] =
                                [frames[Frame(self)] EXCEPT
                                    !.tokens = kept,
                                    !.search_terms = IF Len(kept) # 0
                                                     THEN ListOrder(expand_query(kept), hash_seed)
                                                     ELSE <<>>]]
               /\ at' = [at EXCEPT ![self] = "load"]
               /\ UNCHANGED answers
    /\ UNCHANGED asked
    /\ UNCHANGED other_vars

\* Line 537
LoadStep(self) ==
    /\ at[self] = "load"
    /\ frames' = [frames EXCEPT ![Frame(self)] =
                     [frames[Frame(self)] EXCEPT !.skills = get_skills(dir_exists, skill_files)]]
    /\ at' = [at EXCEPT ![self] = "score"]
    /\ UNCHANGED <<asked, answers>>
    /\ UNCHANGED other_vars

\* Lines 539-588
ScoreStep(self) ==
    /\ at[self] = "score"
    /\ \E F \in {frames[Frame(self)]} :
          frames' = [frames EXCEPT ![Frame(self)] =
                        [F EXCEPT !.iterations = SkillLoop(F.skills, F.skill_boosts, F.boost_reasons,
                                                           F.search_terms, hash_seed)]]
    /\ at' = [at EXCEPT ![self] = "sort"]
    /\ UNCHANGED <<asked, answers>>
    /\ UNCHANGED other_vars

\* Line 590
ReturnStep(self) ==
    /\ at[self] = "sort"
    /\ \E sorted \in {SortByConfidence(Recommendations(frames[Frame(self)].iterations), 1, <<>>)} :
          /\ frames' = [frames EXCEPT ![Frame(self)] =
                           [frames[Frame(self)] EXCEPT !.result = sorted]]
          /\ answers' = [answers EXCEPT ![self] = sorted]
    /\ at' = [at EXCEPT ![self] = "done"]
    /\ UNCHANGED asked
    /\ UNCHANGED other_vars

Step(self) ==
    \/ Call(self)
    \/ Tokenize(self)
    \/ BoostStep(self)
    \/ FilterStep(self)
    \/ LoadStep(self)
    \/ ScoreStep(self)
    \/ ReturnStep(self)

NextThreads == \E self \in Callers : Step(self)

SpecThreads == Init /\ [][NextThreads]_vars

\* What analyze_request(p) returns when nothing runs beside it (lines
\* 502-590 in one piece).
AnalyzeAlone(p) ==
    IF Len(p) = 0 THEN <<>>
    ELSE LET all     == find_words(lower(p))
             boosted == BoostLoop([skill_boosts |-> EmptyDict, boost_reasons |-> EmptyDict], all, 1)
             kept    == FilterTokens(all)
         IN  IF Len(kept) = 0 /\ DOMAIN boosted.skill_boosts = {} THEN <<>>
             ELSE SortByConfidence(
                      Recommendations(
                          SkillLoop(get_skills(dir_exists, skill_files),
                                    boosted.skill_boosts, boosted.boost_reasons,
                                    IF Len(kept) # 0
                                    THEN ListOrder(expand_query(kept), hash_seed) ELSE <<>>,
                                    hash_seed)),
                      1, <<>>)

\* ------------------------------------------------- a corpus-matching workload

\* Requests and catalogs that exercise the tiers of the loop over
\* search_terms.
MatchLexemes == {"Git", "list", "merge"}

\* The request of the routing example.
CommitRequest == "how do I commit my git changes"

MatchPrompts ==
    {Join(words) : words \in UNION {[1..n -> MatchLexemes] : n \in 0..MaxTokens}}
    \cup {CommitRequest}

\* SKILL.md files: a skill whose description holds two words around
\* "branch" and a word around the stop word "show"; a skill whose
\* description holds the 3-letter word "ran" and a word around "git"; the
\* skill of the routing example.
FuzzyFile   == Meta([name |-> "git-tools",
                     description |-> "Git branching: branches, merge and shows"])
ShortFile   == Meta([name |-> "ci-logs",
                     description |-> "Jobs that ran, gitignore rules"])
ExampleFile == Meta([name |-> "workflows-git",
                     description |-> "Version control operations including commit, branch, and merge"])

\* A SKILL.md whose frontmatter has no name.
NamelessFile == Meta([description |-> "Git helpers without a name"])

\* The last directory holds no parsable skill: a file that cannot be read
\* and a file without a name.
MatchDisks == {<<FuzzyFile, ShortFile>>, <<ExampleFile>>, <<None, NamelessFile>>}

InitMatch ==
    /\ dir_exists \in BOOLEAN
    /\ skill_files \in (IF dir_exists THEN MatchDisks ELSE {<<>>})
    /\ hash_seed = 0
    /\ pc = "idle"
    /\ prompt = ""
    /\ all_tokens = <<>>
    /\ skill_boosts = EmptyDict
    /\ boost_reasons = EmptyDict
    /\ tokens = <<>>
    /\ search_terms = <<>>
    /\ skills = <<>>
    /\ iterations = <<>>
    /\ result = <<>>
    /\ calls = 0
    /\ previous = <<>>
    /\ upc = "idle"
    /\ arg_matches = 0
    /\ arg_boost = FALSE
    /\ arg_ambiguous = 0
    /\ returned = 0
    /\ cpc = "idle"
    /\ arg_score = FZero
    /\ arg_has_boost = FALSE
    /\ conf_returned = FZero
    /\ mpc = "idle"
    /\ arg_threshold = 0
    /\ arg_uncertainty = 100
    /\ arg_show_rejections = FALSE
    /\ emitted = <<>>
    /\ asked = [c \in Callers |-> ""]
    /\ at = [c \in Callers |-> "idle"]
    /\ frames = [c \in Callers |-> EmptyFrame]
    /\ answers = [c \in Callers |-> <<>>]
    /\ vpc = "idle"
    /\ arg_file_path = ""
    /\ arg_doc_type = Untyped
    /\ arg_skip_exclusions = FALSE
    /\ file_read = None
    /\ validation = [exit_code |-> 0]

AnalyzeMatch ==
    /\ pc = "idle"
    /\ \E p \in MatchPrompts, seed \in 0..MaxSeed : analyze_request(p, seed)
    /\ pc' = "done"
    /\ calls' = calls + 1
    /\ UNCHANGED <<dir_exists, skill_files, previous, call_vars, conf_vars, main_vars, thread_vars, validate_vars>>

NextMatch == AnalyzeMatch

SpecMatch == InitMatch /\ [][NextMatch]_vars

\* ------------------------------------------------ an intent-boost workload

\* Requests made of a key of both booster tables (plan, mcp), a key of the
\* multi-skill table only (changes) and a word of neither (merge), against
\* catalogs that hold the targets of those boosters.
IntentLexemes == {"plan", "mcp", "changes", "merge"}

IntentPrompts ==
    {Join(words) : words \in UNION {[1..n -> IntentLexemes] : n \in 0..MaxTokens}}

\* Two skills directories: system-spec-kit and workflows-code; and
\* mcp-code-mode, workflows-code--opencode without description,
\* workflows-git and system-spec-kit.
IntentDisks ==
    {<<Meta([name |-> "system-spec-kit",
             description |-> "Spec folders, planning and merge notes"]),
       Meta([name |-> "workflows-code", description |-> "Implementation workflow"])>>,
     <<Meta([name |-> "mcp-code-mode", description |-> "MCP tool calls"]),
       Meta([name |-> "workflows-code--opencode"]),
       ExampleFile,
       Meta([name |-> "git-branch-rebase", description |-> "Merge commits"]),
       Meta([name |-> "git-rebase-branch"]),
       Meta([name |-> "system-spec-kit",
             description |-> "Spec folders, planning and merge notes"])>>}

InitIntent ==
    /\ dir_exists = TRUE
    /\ skill_files \in (IF dir_exists THEN IntentDisks ELSE {<<>>})
    /\ hash_seed = 0
    /\ pc = "idle"
    /\ prompt = ""
    /\ all_tokens = <<>>
    /\ skill_boosts = EmptyDict
    /\ boost_reasons = EmptyDict
    /\ tokens = <<>>
    /\ search_terms = <<>>
    /\ skills = <<>>
    /\ iterations = <<>>
    /\ result = <<>>
    /\ calls = 0
    /\ previous = <<>>
    /\ upc = "idle"
    /\ arg_matches = 0
    /\ arg_boost = FALSE
    /\ arg_ambiguous = 0
    /\ returned = 0
    /\ cpc = "idle"
    /\ arg_score = FZero
    /\ arg_has_boost = FALSE
    /\ conf_returned = FZero
    /\ mpc = "idle"
    /\ arg_threshold = 0
    /\ arg_uncertainty = 100
    /\ arg_show_rejections = FALSE
    /\ emitted = <<>>
    /\ asked = [c \in Callers |-> ""]
    /\ at = [c \in Callers |-> "idle"]
    /\ frames = [c \in Callers |-> EmptyFrame]
    /\ answers = [c \in Callers |-> <<>>]
    /\ vpc = "idle"
    /\ arg_file_path = ""
    /\ arg_doc_type = Untyped
    /\ arg_skip_exclusions = FALSE
    /\ file_read = None
    /\ validation = [exit_code |-> 0]

AnalyzeIntent ==
    /\ pc = "idle"
    /\ \E p \in IntentPrompts, seed \in 0..MaxSeed : analyze_request(p, seed)
    /\ pc' = "done"
    /\ calls' = calls + 1
    /\ UNCHANGED <<dir_exists, skill_files, previous, call_vars, conf_vars, main_vars, thread_vars, validate_vars>>

NextIntent == AnalyzeIntent

SpecIntent == InitIntent /\ [][NextIntent]_vars

\* ----------------------------------------------------- document validator

\* validate_document.py.  A document is held as the lines of its content
\* (content.split('\n')); the patterns the validators search with are
\* matched line by line.  The documents drawn below have no blank line and
\* no line that starts or ends with white space, so no \s of a pattern
\* reaches over a line end.  Of an error the type and the severity are
\* kept; the fields that only serve --fix are left out.

EXCLUDED_PATH_PATTERNS ==
    <<".pytest_cache", "node_modules", "__pycache__", ".git", "vendor", "dist",
      "build", ".venv", "venv">>
THIRD_PARTY_PATTERNS == <<"mcp-narsil/mcp_server">>
TEMPLATE_PATTERNS == <<"system-spec-kit/templates/">>

\* should_exclude_path(file_path)[0]
should_exclude_path(file_path) ==
    \/ \E i \in 1..Len(EXCLUDED_PATH_PATTERNS) :
          \/ Contains(file_path, "/" \o EXCLUDED_PATH_PATTERNS[i] \o "/")
          \/ Contains(file_path, "\\" \o EXCLUDED_PATH_PATTERNS[i] \o "\\")
    \/ \E i \in 1..Len(THIRD_PARTY_PATTERNS) : Contains(file_path, THIRD_PARTY_PATTERNS[i])
    \/ \E i \in 1..Len(TEMPLATE_PATTERNS) : Contains(file_path, TEMPLATE_PATTERNS[i])

\* detect_document_type(file_path, content, rules)
detect_document_type(file_path) ==
    LET path_lower == lower(file_path)
    IN  IF EndsWith(path_lower, "readme.md") THEN "readme"
        ELSE IF EndsWith(path_lower, "skill.md") THEN "skill"
        ELSE IF Contains(path_lower, "/agent/") \/ Contains(path_lower, "\\agent\\")
        THEN "agent"
        ELSE IF Contains(path_lower, "/references/") \/ Contains(path_lower, "\\references\\")
        THEN "reference"
        ELSE IF Contains(path_lower, "/assets/") \/ Contains(path_lower, "\\assets\\")
        THEN "asset"
        ELSE "readme"

\* The character of EMOJI_PATTERN that the documents here use.
EMOJI_PATTERN == {"⚙"}

Whitespace == {" ", "\t"}
Digits == CharsOf("0123456789")

has_emoji(text) == \E i \in 1..Len(text) : CharAt(text, i) \in EMOJI_PATTERN

\* ''.join(parts)
RECURSIVE Concat(_)
Concat(parts) ==
    IF Len(parts) = 0 THEN "" ELSE parts[1] \o Concat(SubSeq(parts, 2, Len(parts)))

\* str.lstrip() and str.strip()
lstrip(s) ==
    IF \A i \in 1..Len(s) : CharAt(s, i) \in Whitespace THEN ""
    ELSE SubSeq(s, CHOOSE i \in 1..Len(s) :
                      /\ CharAt(s, i) \notin Whitespace
                      /\ \A k \in 1..(i - 1) : CharAt(s, k) \in Whitespace,
                Len(s))
strip(s) ==
    LET t == lstrip(s)
    IN  IF t = "" THEN ""
        ELSE SubSeq(t, 1, CHOOSE j \in 1..Len(t) :
                             /\ CharAt(t, j) \notin Whitespace
                             /\ \A k \in (j + 1)..Len(t) : CharAt(t, k) \in Whitespace)

\* s.replace(' ', '_'), by halves
RECURSIVE Underscored(_)
Underscored(s) ==
    IF Len(s) = 0 THEN ""
    ELSE IF Len(s) = 1 THEN (IF s = " " THEN "_" ELSE s)
    ELSE Underscored(SubSeq(s, 1, Len(s) \div 2))
            \o Underscored(SubSeq(s, Len(s) \div 2 + 1, Len(s)))

\* normalize_section_name(name)
normalize_section_name(name) ==
    LET no_emoji == Concat(Runs(name, EMOJI_PATTERN, FALSE))
        lowered == Underscored(lower(strip(no_emoji)))
    IN  Concat(Runs(lowered, CharsOf(Lowercase) \cup Digits \cup {"_"}, TRUE))

\* The length of the run of digits of s that starts at position i.
DigitRun(s, i) ==
    CHOOSE n \in 0..(Len(s) - i + 1) :
        /\ \A k \in i..(i + n - 1) : CharAt(s, k) \in Digits
        /\ (i + n > Len(s) \/ CharAt(s, i + n) \notin Digits)

\* int(digits)
RECURSIVE ParseInt(_)
ParseInt(digits) ==
    IF Len(digits) = 0 THEN 0
    ELSE 10 * ParseInt(SubSeq(digits, 1, Len(digits) - 1))
         + (CHOOSE d \in 0..9 : CharAt("0123456789", d + 1) = CharAt(digits, Len(digits)))

\* What follows "## <digits>." in a line.
AfterNumber(line) == SubSeq(line, 5 + DigitRun(line, 4), Len(line))

\* A line that ^## (\d+)\.\s+(.+)$ matches (lines 241 and 307).
IsNumberedH2(line) ==
    /\ StartsWith(line, "## ")
    /\ DigitRun(line, 4) >= 1
    /\ Len(line) >= 4 + DigitRun(line, 4)
    /\ CharAt(line, 4 + DigitRun(line, 4)) = "."
    /\ Len(AfterNumber(line)) >= 2
    /\ CharAt(AfterNumber(line), 1) \in Whitespace

\* group(1) and group(2) of that pattern
H2Number(line) == ParseInt(SubSeq(line, 4, 3 + DigitRun(line, 4)))
H2Title(line) == strip(AfterNumber(line))

\* group(1) of ^## \d+\.\s+(?:[^\w\s]\s+)?(.+)$ (line 314), stripped and
\* lowered: the title without a leading symbol.
RawSectionName(line) ==
    LET title == H2Title(line)
        rest == lstrip(SubSeq(title, 2, Len(title)))
    IN  IF /\ Len(title) >= 3
           /\ CharAt(title, 1) \notin WordChars
           /\ CharAt(title, 2) \in Whitespace
           /\ rest # ""
        THEN lower(rest)
        ELSE lower(title)

\* A line in which ## (?:[^\w\s]\s+)?TABLE OF CONTENTS\s*\n can match: the
\* line is not the last one, and from some "## " on it reads the title,
\* after one symbol or not, to its end.
IsTocTitle(r) ==
    \/ lower(strip(r)) = "table of contents" /\ (r = "" \/ CharAt(r, 1) \notin Whitespace)
    \/ /\ Len(r) >= 2
       /\ CharAt(r, 1) \notin (WordChars \cup Whitespace)
       /\ CharAt(r, 2) \in Whitespace
       /\ lower(strip(SubSeq(r, 2, Len(r)))) = "table of contents"
IsTocHeading(line) ==
    \E k \in 1..(Len(line) - 2) :
        /\ SubSeq(line, k, k + 2) = "## "
        /\ IsTocTitle(SubSeq(line, k + 3, Len(line)))

\* toc_content, as lines: from the line after heading line i up to the next
\* line after it that starts with "---" or "## " (the lookahead needs a
\* line end before the marker, so the first line of the body is never one).
TocBody(lines, i) ==
    LET ends == {j \in (i + 2)..Len(lines) :
                    StartsWith(lines[j], "---") \/ StartsWith(lines[j], "## ")}
        last == IF ends = {} THEN Len(lines)
                ELSE (CHOOSE j \in ends : \A k \in ends : j <= k) - 1
    IN  SubSeq(lines, i + 1, last)

\* re.search(r'\(#(\d+)-([a-z])', line)
HasSingleDashAnchor(line) ==
    \E p \in 1..(Len(line) - 4) :
        /\ SubSeq(line, p, p + 1) = "(#"
        /\ LET n == DigitRun(line, p + 2)
           IN  /\ n >= 1
               /\ p + 3 + n <= Len(line)
               /\ CharAt(line, p + 2 + n) = "-"
               /\ CharAt(line, p + 3 + n) \in CharsOf(Lowercase)

\* re.search(r'\[(.+?)\]', line): the brackets that match, and group(1)
EntryBrackets(line) ==
    {pq \in (1..Len(line)) \X (1..Len(line)) :
        /\ CharAt(line, pq[1]) = "["
        /\ pq[2] >= pq[1] + 2
        /\ CharAt(line, pq[2]) = "]"
        /\ \A k \in (pq[1] + 2)..(pq[2] - 1) : CharAt(line, k) # "]"
        /\ \A q \in 1..(pq[1] - 1) :
              ~(CharAt(line, q) = "["
                /\ \E r \in (q + 2)..Len(line) : CharAt(line, r) = "]")}
EntryText(line) ==
    LET pq == CHOOSE pq \in EntryBrackets(line) : TRUE
    IN  SubSeq(line, pq[1] + 1, pq[2] - 1)

Error(type, severity) == [type |-> type, severity |-> severity]

\* The errors of one line of the table of contents (lines 186-229).
TocLineErrors(raw_line) ==
    LET line == strip(raw_line)
    IN  IF ~StartsWith(line, "- [") THEN <<>>
        ELSE (IF HasSingleDashAnchor(line)
              THEN <<Error("toc_single_dash_anchor", "blocking")>> ELSE <<>>)
             \o (IF EntryBrackets(line) # {} /\ ~has_emoji(EntryText(line))
                 THEN <<Error("toc_missing_emoji", "blocking")>> ELSE <<>>)

RECURSIVE TocErrors(_, _)
TocErrors(body, i) ==
    IF i > Len(body) THEN <<>> ELSE TocLineErrors(body[i]) \o TocErrors(body, i + 1)

\* validate_toc(content, doc_type_rules, rules)
validate_toc(lines, doc_type_rules) ==
    IF ~doc_type_rules.toc_required THEN <<>>
    ELSE LET headings == {i \in 1..(Len(lines) - 1) : IsTocHeading(lines[i])}
         IN  IF headings = {} THEN <<Error("missing_toc", "blocking")>>
             ELSE TocErrors(TocBody(lines, CHOOSE i \in headings :
                                               \A k \in headings : i <= k), 1)

\* The loop of validate_h2_headers over the matches (lines 254-294).
RECURSIVE H2Errors(_, _, _, _)
H2Errors(matches, i, expected_num, emoji_required) ==
    IF i > Len(matches) THEN <<>>
    ELSE (IF H2Number(matches[i]) # expected_num
          THEN <<Error("non_sequential_numbering", "warning")>> ELSE <<>>)
         \o (IF emoji_required /\ ~has_emoji(H2Title(matches[i]))
             THEN <<Error("missing_h2_emoji", "blocking")>> ELSE <<>>)
         \o H2Errors(matches, i + 1, H2Number(matches[i]) + 1, emoji_required)

\* validate_h2_headers(content, doc_type_rules, rules)
validate_h2_headers(lines, doc_type_rules) ==
    H2Errors(SelectSeq(lines, IsNumberedH2), 1, 1, doc_type_rules.h2_emoji_required)

\* Whether validate_required_sections finds req_section (lines 324-342).
SectionFound(req_section, headers, section_aliases) ==
    LET names == {normalize_section_name(RawSectionName(headers[h])) : h \in 1..Len(headers)}
        found_sections ==
            names \cup {section_aliases[n] : n \in names \cap DOMAIN section_aliases}
        req_words == Runs(req_section, {"_"} \cup Whitespace, FALSE)
    IN  \/ req_section \in found_sections
        \/ \E alias \in DOMAIN section_aliases :
              /\ section_aliases[alias] = req_section
              /\ Underscored(alias) \in found_sections
        \/ \E h \in 1..Len(headers) :
              \A w \in 1..Len(req_words) : Contains(RawSectionName(headers[h]), req_words[w])

RECURSIVE SectionErrors(_, _, _, _)
SectionErrors(required, i, headers, section_aliases) ==
    IF i > Len(required) THEN <<>>
    ELSE (IF SectionFound(required[i], headers, section_aliases) THEN <<>>
          ELSE <<Error("missing_required_section", "blocking")>>)
         \o SectionErrors(required, i + 1, headers, section_aliases)

\* validate_required_sections(content, doc_type_rules)
validate_required_sections(lines, doc_type_rules) ==
    SectionErrors(doc_type_rules.required_sections, 1, SelectSeq(lines, IsNumberedH2),
                  doc_type_rules.section_aliases)

\* What validate_document returns once the validators have run, the exit
\* code from the errors counted (lines 501-518).
Validated(doc_type, all_errors, counted) ==
    LET IsBlocking(e) == e.severity = "blocking"
        IsWarning(e) == e.severity = "warning"
        IsInfo(e) == e.severity = "info"
        valid == Len(counted) = 0
    IN  [valid |-> valid,
         document_type |-> doc_type,
         blocking_errors |-> SelectSeq(all_errors, IsBlocking),
         warnings |-> SelectSeq(all_errors, IsWarning),
         info |-> SelectSeq(all_errors, IsInfo),
         total_issues |-> Len(all_errors),
         exit_code |-> IF valid THEN 0 ELSE 1]

\* A faulty variant of ExitErrors: every issue counts, warnings too.
ExitErrorsAnyIssue(all_errors) == all_errors

\* The errors that decide valid and exit_code: blocking_errors (line 505).
ExitErrors(all_errors) ==
    LET IsBlocking(e) == e.severity = "blocking"
    IN  SelectSeq(all_errors, IsBlocking)

\* validate_document(file_path, doc_type, rules, skip_exclusions), lines
\* 434-519; file is None when open() or read() raises, else the lines of
\* the content; document_types is rules['document_types'].
validate_document(file_path, doc_type, document_types, skip_exclusions, file) ==
    IF ~skip_exclusions /\ should_exclude_path(file_path)
    THEN [valid |-> TRUE, skipped |-> TRUE, document_type |-> "unknown",
          blocking_errors |-> <<>>, warnings |-> <<>>, info |-> <<>>,
          total_issues |-> 0, exit_code |-> 0]
    ELSE IF file.is_none
    THEN [valid |-> FALSE, error |-> TRUE, exit_code |-> 2]
    ELSE LET type == IF doc_type.is_none THEN detect_document_type(file_path)
                     ELSE doc_type.data
             doc_type_rules == DictGet(document_types, type, EmptyDict)
         IN  IF type \notin DOMAIN document_types
             THEN [valid |-> TRUE, warnings |-> <<"Unknown document type">>, exit_code |-> 0]
             ELSE LET all_errors == validate_toc(file.data, doc_type_rules)
                                    \o validate_h2_headers(file.data, doc_type_rules)
                                    \o validate_required_sections(file.data, doc_type_rules)
                  IN  Validated(type, all_errors, ExitErrors(all_errors))

\* A call of validate_document (line 535 of main): the paths, the --type
\* values, the rules and the documents it is called with here.
ValidatePaths ==
    {"docs/README.md", "skill/git/SKILL.md", "app/node_modules/pkg/README.md",
     "node_modules/notes.md", ".opencode/agent/write.md"}

DocTypes == {Untyped, Meta("readme"), Meta("skill")}

DocumentTypes ==
    [readme |-> [toc_required |-> TRUE, h2_emoji_required |-> TRUE,
                 required_sections |-> <<"overview">>,
                 section_aliases |-> ("about" :> "overview")],
     skill |-> [toc_required |-> FALSE, h2_emoji_required |-> FALSE,
                required_sections |-> <<"overview">>,
                section_aliases |-> EmptyDict]]

DocLines ==
    {"## TABLE OF CONTENTS",
     "- [1. ⚙ OVERVIEW](#1--overview)",
     "- [1. ⚙ OVERVIEW](#1-overview)",
     "- [1. OVERVIEW](#1--overview)",
     "## 1. ⚙ OVERVIEW",
     "## 1. OVERVIEW",
     "## 2. ⚙ ABOUT"}

MaxLines == 3

Documents == UNION {[1..n -> DocLines] : n \in 0..MaxLines}

CallValidate ==
    /\ vpc = "idle"
    /\ \E path \in ValidatePaths, type \in DocTypes, skip \in BOOLEAN,
          read \in {None} \cup {Meta(d) : d \in Documents} :
          /\ arg_file_path' = path
          /\ arg_doc_type' = type
          /\ arg_skip_exclusions' = skip
          /\ file_read' = read
          /\ validation' = validate_document(path, type, DocumentTypes, skip, read)
    /\ vpc' = "done"
    /\ UNCHANGED <<dir_exists, skill_files, request_vars, call_vars, conf_vars, main_vars,
                   thread_vars>>

NextValidate == CallValidate

\* The skills directory plays no part in a validation.
InitValidate == Init /\ ~dir_exists

SpecValidate == InitValidate /\ [][NextValidate]_vars

\* ------------------------------------------------------------------ claims

\* Exact decimal arithmetic, against which the floats are checked.

IsBoostTag(m) == StartsWith(m, "!")

\* What the provenance entry m of skill name added to its score, in tenths.
TagTenths(name, m) ==
    IF IsBoostTag(m)
    THEN IF EndsWith(m, "(multi)")
         THEN LET entries == MULTI_SKILL_BOOSTERS[SubSeq(m, 2, Len(m) - 7)]
              IN  entries[CHOOSE j \in 1..Len(entries) : entries[j][1] = name][2]
         ELSE INTENT_BOOSTERS[SubSeq(m, 2, Len(m))][2]
    ELSE IF EndsWith(m, "(name)") THEN 15
    ELSE IF EndsWith(m, "~") THEN 5
    ELSE 10

RECURSIVE SumTenths(_, _, _)
SumTenths(name, ms, i) ==
    IF i > Len(ms) THEN 0 ELSE TagTenths(name, ms[i]) + SumTenths(name, ms, i + 1)

\* The total score of an iteration, in tenths.
ScoreTenths(it) == SumTenths(it.name, it.matches, 1)

\* Its accumulated intent boost, in tenths.
BoostTenths(it) == SumTenths(it.name, SelectSeq(it.matches, IsBoostTag), 1)

Min(x, y) == IF x <= y THEN x ELSE y

\* min(min(B + 0.15 * total_score, 0.95) * weight, 1.0) in thousandths, for
\* the weight 1.0 every catalog entry has.
ConfidenceThousandths(it) ==
    LET B == IF BoostTenths(it) > 0 THEN 500 ELSE 250
    IN  Min(Min(B + 15 * ScoreTenths(it), 950), 1000)

Returned(name) == \E r \in 1..Len(result) : result[r].skill = name

\* C1: every recommendation analyze_request returns has a confidence in
\* [0, 1] and an uncertainty in [0, 1] (reported values in hundredths, and
\* the confidence before rounding).
C1_ValuesInUnitInterval ==
    /\ \A r \in 1..Len(result) :
          /\ result[r].confidence \in 0..100
          /\ result[r].uncertainty \in 0..100
    /\ \A i \in 1..Len(iterations) : FLe(iterations[i].confidence, F_1_0)

\* C1's case: a returned skill whose unclamped confidence would exceed 1.
C1_Witness ==
    /\ pc = "done"
    /\ \E i \in 1..Len(iterations) :
          /\ iterations[i].appended
          /\ 500 + 15 * ScoreTenths(iterations[i]) > 1000
          /\ iterations[i].recommendation.confidence = 95
          /\ Returned(iterations[i].name)

\* C2: the returned list is ordered by non-increasing reported confidence.
C2_SortedByConfidence ==
    \A r \in 1..(Len(result) - 1) : result[r].confidence >= result[r + 1].confidence

\* C2's case: the sort moved a later, more confident recommendation forward.
C2_Witness ==
    /\ pc = "done"
    /\ Len(result) >= 2
    /\ result # Recommendations(iterations)
    /\ result[1].confidence > result[2].confidence

\* C3: no skill name occurs in more than one returned recommendation.
C3_NoDuplicateSkill ==
    \A r1, r2 \in 1..Len(result) : r1 # r2 => result[r1].skill # result[r2].skill

\* C3's case: two SKILL.md files declare the same name and that skill is
\* returned.
C3_Witness ==
    /\ pc = "done"
    /\ \E f1, f2 \in 1..Len(skill_files) :
          /\ f1 < f2
          /\ ~skill_files[f1].is_none
          /\ ~skill_files[f2].is_none
          /\ skill_files[f1].data["name"] = skill_files[f2].data["name"]
          /\ Returned(skill_files[f1].data["name"])

\* C4: a catalog skill is returned if and only if its total score is
\* strictly greater than 0.
C4_ReturnedIffPositiveScore ==
    pc = "done" =>
        \A i \in 1..Len(iterations) :
            Returned(iterations[i].name) <=> FGt(iterations[i].score, FZero)

\* C4's case: one skill of the catalog scored and was returned, another did
\* not score and was left out.
C4_Witness ==
    /\ pc = "done"
    /\ \E i, j \in 1..Len(iterations) :
          /\ FGt(iterations[i].score, FZero)
          /\ Returned(iterations[i].name)
          /\ iterations[j].score = FZero
          /\ ~Returned(iterations[j].name)

\* C5: analysing the same request twice against the same catalog yields
\* identical lists, whatever order the intermediate sets are listed in.
C5_RepeatIdentical ==
    (pc = "done" /\ calls = 2) => result = previous

\* C6: the empty string, and every request whose tokens are all stop words
\* or at most 2 long and none a booster key, yields the empty list.
C6_EmptyWithoutSignal ==
    (/\ pc = "done"
     /\ \A t \in Range(find_words(lower(prompt))) :
           /\ t \in STOP_WORDS \/ Len(t) <= 2
           /\ t \notin DOMAIN INTENT_BOOSTERS
           /\ t \notin DOMAIN MULTI_SKILL_BOOSTERS)
    => result = <<>>

\* C6's case: a request of stop words and short tokens only was analysed
\* against a catalog that is on disk.
C6_Witness ==
    /\ pc = "done"
    /\ dir_exists
    /\ all_tokens = <<"work", "x", "work", "x">>
    /\ tokens = <<>>
    /\ result = <<>>

\* C7: passes_threshold is true if and only if the recommendation's
\* confidence is at least 0.8 and its uncertainty at most 0.35.
C7_PassesIffThresholds ==
    \A r \in 1..Len(result) :
        result[r].passes_threshold <=>
            (result[r].confidence >= 80 /\ result[r].uncertainty <= 35)

\* C8: a returned skill's reported confidence is
\* min(min(B + 0.15 * total_score, 0.95) * weight, 1.0) rounded to 2
\* decimals, B being 0.50 with an intent boost and 0.25 without.
C8_ConfidenceFormula ==
    \A i \in 1..Len(iterations) :
        iterations[i].appended =>
            LET exact    == ConfidenceThousandths(iterations[i])
                reported == 10 * iterations[i].recommendation.confidence
            IN  /\ reported - exact <= 5
                /\ exact - reported <= 5

\* C8's case: a boosted skill and an unboosted one, both below the 0.95 cap.
C8_Witness ==
    /\ pc = "done"
    /\ \E i, j \in 1..Len(iterations) :
          /\ iterations[i].appended /\ iterations[i].has_boost
          /\ iterations[i].recommendation.confidence \in 51..94
          /\ iterations[j].appended /\ ~iterations[j].has_boost
          /\ iterations[j].recommendation.confidence \in 26..94

\* base + no-intent penalty + ambiguity penalty, capped at 1.00, in hundredths.
UncertaintyHundredths(num_matches, has_intent_boost, num_ambiguous_matches) ==
    LET base == IF num_matches >= 5 THEN 15
                ELSE IF num_matches >= 3 THEN 25
                ELSE IF num_matches >= 1 THEN 40
                ELSE 70
    IN  Min(base + (IF has_intent_boost THEN 0 ELSE 15)
                 + Min(10 * num_ambiguous_matches, 30), 100)

\* C9: calculate_uncertainty returns the base of the match-count bucket,
\* plus 0.15 without intent boost, plus 0.10 per ambiguous match capped at
\* 0.30, the sum capped at 1.0 and rounded to 2 decimals.
C9_UncertaintyFormula ==
    upc = "done" =>
        returned = UncertaintyHundredths(arg_matches, arg_boost, arg_ambiguous)

\* C9's case: a call in which the ambiguity cap applies.
C9_Witness ==
    /\ upc = "done"
    /\ arg_matches >= 5
    /\ ~arg_boost
    /\ arg_ambiguous > 3
    /\ returned = 60

Occurrences(seq, x) == Cardinality({i \in 1..Len(seq) : seq[i] = x})

\* token fires a multi-skill booster for skill
MultiBoosts(token, skill) ==
    /\ token \in DOMAIN MULTI_SKILL_BOOSTERS
    /\ \E j \in 1..Len(MULTI_SKILL_BOOSTERS[token]) :
          MULTI_SKILL_BOOSTERS[token][j][1] = skill

\* token fires a booster for skill
Boosts(token, skill) ==
    \/ token \in DOMAIN INTENT_BOOSTERS /\ INTENT_BOOSTERS[token][1] = skill
    \/ MultiBoosts(token, skill)

\* C10: a keyword K of the single-skill table with boost b for skill S that
\* occurs n times, S having no other booster in the request, gives S the
\* accumulated boost n * b.
C10_BoostPerOccurrence ==
    pc = "done" =>
        \A K \in Range(all_tokens) \cap DOMAIN INTENT_BOOSTERS :
            LET S == INTENT_BOOSTERS[K][1]
                b == INTENT_BOOSTERS[K][2]
                n == Occurrences(all_tokens, K)
            IN  (/\ ~MultiBoosts(K, S)
                 /\ \A t \in Range(all_tokens) : t # K => ~Boosts(t, S))
                => /\ S \in DOMAIN skill_boosts
                   /\ Round2(skill_boosts[S]) = 10 * n * b

\* C10's case: the keyword debug (0.6) twice gives 1.2.
C10_Witness ==
    /\ pc = "done"
    /\ all_tokens = <<"debug", "debug">>
    /\ Round2(skill_boosts["workflows-chrome-devtools"]) = 120

\* What the ladder of tiers gives a term against a skill, in tenths: 1.5 for
\* a filtered name token, otherwise 1.0 for a corpus word, otherwise 0.5 for
\* a term of 4 or more characters in a substring relation with a corpus word
\* of 4 or more characters, otherwise 0.
TermTenths(term, name_tokens, corpus) ==
    IF term \in Range(name_tokens) THEN 15
    ELSE IF term \in corpus THEN 10
    ELSE IF /\ Len(term) >= 4
            /\ \E w \in corpus : Len(w) >= 4 /\ (Contains(w, term) \/ Contains(term, w))
         THEN 5
    ELSE 0

RECURSIVE SumTermTenths(_, _, _, _)
SumTermTenths(terms, i, name_tokens, corpus) ==
    IF i > Len(terms) THEN 0
    ELSE TermTenths(terms[i], name_tokens, corpus) + SumTermTenths(terms, i + 1, name_tokens, corpus)

\* The provenance entries of a list that a term produced in corpus matching.
TermEntries(matches, term) ==
    {k \in 1..Len(matches) : matches[k] \in {term \o "(name)", term, term \o "~"}}

\* The corpus words a term is in a substring relation with.
FuzzyHits(term, corpus) ==
    {w \in corpus : Len(w) >= 4 /\ (Contains(w, term) \/ Contains(term, w))}

\* C11: for every skill, each search term adds the score of exactly one
\* tier (1.5 name, else 1.0 corpus, else 0.5 fuzzy, else 0) and at most one
\* provenance entry, so the score is the accumulated boost plus the sum of
\* those tier scores over the search terms.
C11_OneTierPerTerm ==
    pc = "done" =>
        \A i \in 1..Len(iterations) :
            LET it          == iterations[i]
                name_tokens == NamePartsFiltered(it.name)
                corpus      == Corpus(skills[i].config.description)
            IN  /\ Round2(it.score) =
                       10 * (BoostTenths(it) + SumTermTenths(search_terms, 1, name_tokens, corpus))
                /\ \A k \in 1..Len(search_terms) :
                       Cardinality(TermEntries(it.matches, search_terms[k])) =
                           (IF TermTenths(search_terms[k], name_tokens, corpus) > 0 THEN 1 ELSE 0)

\* C11's case: for the request "Git", the skill git-tools has the term git
\* as a name token and as a corpus word (1.5), the term branch with two
\* fuzzy hits (0.5) and the corpus word merge (1.0).
C11_Witness ==
    /\ pc = "done"
    /\ prompt = "Git"
    /\ \E i \in 1..Len(iterations) :
          /\ iterations[i].name = "git-tools"
          /\ "git" \in Range(NamePartsFiltered("git-tools"))
          /\ "git" \in Corpus(skills[i].config.description)
          /\ Cardinality(FuzzyHits("branch", Corpus(skills[i].config.description))) >= 2
          /\ Range(iterations[i].matches) = {"git(name)", "branch~", "merge"}
          /\ Round2(iterations[i].score) = 300

\* The corpus words a term is in a substring relation with, at any length.
SubstringHits(term, corpus) ==
    {w \in corpus : Contains(w, term) \/ Contains(term, w)}

\* C12: a search term shorter than 4 characters that is neither a filtered
\* name token nor a corpus word gets no provenance entry and adds nothing
\* to the score, and a term whose only substring relations are with corpus
\* words shorter than 4 characters gets none either; the score is exactly
\* what the provenance entries account for.
C12_NoShortFuzzyMatch ==
    pc = "done" =>
        \A i \in 1..Len(iterations) :
            LET it          == iterations[i]
                name_tokens == NamePartsFiltered(it.name)
                corpus      == Corpus(skills[i].config.description)
            IN  /\ Round2(it.score) = 10 * ScoreTenths(it)
                /\ \A k \in 1..Len(search_terms) :
                       LET term == search_terms[k]
                       IN  (/\ term \notin Range(name_tokens)
                            /\ term \notin corpus
                            /\ \/ Len(term) < 4
                               \/ \A w \in SubstringHits(term, corpus) : Len(w) < 4)
                           => TermEntries(it.matches, term) = {}

\* C12's case: for the request "Git", the skill ci-logs has the 3-letter
\* term git inside its corpus word gitignore and its 3-letter corpus word
\* ran inside the term branch, and scores nothing.
C12_Witness ==
    /\ pc = "done"
    /\ prompt = "Git"
    /\ \E i \in 1..Len(iterations) :
          /\ iterations[i].name = "ci-logs"
          /\ "gitignore" \in SubstringHits("git", Corpus(skills[i].config.description))
          /\ "ran" \in SubstringHits("branch", Corpus(skills[i].config.description))
          /\ {"git", "branch"} \subseteq Range(search_terms)
          /\ iterations[i].matches = <<>>
          /\ iterations[i].score = FZero
          /\ ~Returned("ci-logs")

\* C13: with weight 1.0, calculate_confidence of a score with an intent
\* boost is at least 0.8 exactly when the score is at least 2.0, and of a
\* score without one (a multiple of 0.5) exactly when the score is at least
\* 4.0.
C13_ScoreNeededForRouting ==
    cpc = "done" =>
        (FGe(conf_returned, F_0_8) <=>
            FGe(arg_score, IF arg_has_boost THEN FInt(2) ELSE FInt(4)))

\* C13's case: a boosted score of exactly 2.0 reaches 0.8.
C13_Witness ==
    /\ cpc = "done"
    /\ arg_has_boost
    /\ arg_score = FInt(2)
    /\ conf_returned = F_0_8

\* The recommendations of the result for skill name.
EntriesFor(name) == {r \in 1..Len(result) : result[r].skill = name}

\* C14: with a catalog holding workflows-git described as "Version control
\* operations including commit, branch, and merge", the request "how do I
\* commit my git changes" fires the boosters commit and git and the
\* multi-skill booster changes for workflows-git, which is returned with an
\* intent boost, confidence at least 0.80, uncertainty at most 0.35 and
\* passes_threshold true.
C14_CommitExample ==
    (/\ pc = "done"
     /\ prompt = CommitRequest
     /\ \E s \in 1..Len(skills) :
           /\ skills[s].name = "workflows-git"
           /\ skills[s].config.description =
                  "Version control operations including commit, branch, and merge")
    => /\ "workflows-git" \in DOMAIN boost_reasons
       /\ boost_reasons["workflows-git"] = <<"!commit", "!git", "!changes(multi)">>
       /\ \E i \in 1..Len(iterations) :
             /\ iterations[i].name = "workflows-git"
             /\ iterations[i].has_boost
       /\ \E r \in EntriesFor("workflows-git") :
             /\ result[r].confidence >= 80
             /\ result[r].uncertainty <= 35
             /\ result[r].passes_threshold

\* C14's case: the example request against the example catalog; the skill
\* leads the list with confidence 0.95 and uncertainty 0.25.
C14_Witness ==
    /\ pc = "done"
    /\ prompt = CommitRequest
    /\ skill_files = <<ExampleFile>>
    /\ Len(result) >= 1
    /\ result[1].skill = "workflows-git"
    /\ result[1].confidence = 95
    /\ result[1].uncertainty = 25
    /\ result[1].passes_threshold

\* C15: the boosters are applied to every token of the lower-cased request,
\* filtered or not: each occurrence of a key of a booster table gives each
\* target skill one provenance entry and its boost, while the tokens kept
\* for corpus matching are the ones that are no stop words and longer than
\* 2.
C15_BoostBeforeFiltering ==
    (pc = "done" /\ Len(prompt) > 0) =>
        /\ all_tokens = find_words(lower(prompt))
        /\ \A k \in 1..Len(all_tokens) :
              LET tok == all_tokens[k]
              IN  /\ tok \in DOMAIN INTENT_BOOSTERS =>
                        LET S == INTENT_BOOSTERS[tok][1]
                        IN  /\ S \in DOMAIN boost_reasons
                            /\ Occurrences(boost_reasons[S], "!" \o tok) =
                                   Occurrences(all_tokens, tok)
                  /\ tok \in DOMAIN MULTI_SKILL_BOOSTERS =>
                        \A j \in 1..Len(MULTI_SKILL_BOOSTERS[tok]) :
                            LET S == MULTI_SKILL_BOOSTERS[tok][j][1]
                            IN  /\ S \in DOMAIN boost_reasons
                                /\ Occurrences(boost_reasons[S], "!" \o tok \o "(multi)") =
                                       Occurrences(all_tokens, tok)
        /\ DOMAIN skill_boosts = DOMAIN boost_reasons
        /\ \A S \in DOMAIN skill_boosts :
              Round2(skill_boosts[S]) = 10 * SumTenths(S, boost_reasons[S], 1)
        /\ \A k \in 1..Len(tokens) : tokens[k] \notin STOP_WORDS /\ Len(tokens[k]) > 2

\* C15's case: the 2-letter token gh is dropped from corpus matching and
\* still routes to workflows-git with its boost 1.5.
C15_Witness ==
    /\ pc = "done"
    /\ all_tokens = <<"gh">>
    /\ tokens = <<>>
    /\ search_terms = <<>>
    /\ boost_reasons = ("workflows-git" :> <<"!gh">>)
    /\ skill_boosts["workflows-git"] = F_1_5
    /\ Returned("workflows-git")

\* The skills directory is missing, or none of its files yields a skill:
\* each is unreadable or without frontmatter (None) or has no name.
NoParsableSkill ==
    \/ ~dir_exists
    \/ \A f \in 1..Len(skill_files) :
          skill_files[f].is_none \/ "name" \notin DOMAIN skill_files[f].data

\* The skills get_skills always adds.
CommandBridges == {"command-spec-kit", "command-memory-save"}

\* C16 as stated: without a parsable on-disk catalog the result is empty for
\* every request.
C16_EmptyWithoutCatalog ==
    (pc = "done" /\ NoParsableSkill) => result = <<>>

\* C16, amended: without a parsable on-disk catalog the catalog that is
\* scored holds exactly the two built-in command bridges, every returned
\* recommendation names one of them, and the result is empty exactly when
\* neither has a score above 0.
C16_OnlyBridgesWithoutCatalog ==
    (pc = "done" /\ NoParsableSkill) =>
        /\ (Len(tokens) > 0 \/ DOMAIN skill_boosts # {}) =>
               [s \in 1..Len(skills) |-> skills[s].name] =
                   <<"command-spec-kit", "command-memory-save">>
        /\ \A r \in 1..Len(result) : result[r].skill \in CommandBridges
        /\ \A b \in CommandBridges :
               Returned(b) <=> \E i \in 1..Len(iterations) :
                                  iterations[i].name = b /\ FGt(iterations[i].score, FZero)

\* C16's case: the directory holds no parsable skill and the example
\* request is routed to command-spec-kit, whose description holds
\* "changes".
C16_Witness ==
    /\ pc = "done"
    /\ dir_exists
    /\ skill_files = <<None, NamelessFile>>
    /\ prompt = CommitRequest
    /\ Len(result) = 1
    /\ result[1].skill = "command-spec-kit"
    /\ result[1].confidence = 40

\* An entry satisfies the three conditions of the command line, in decimal.
Wanted(r) ==
    /\ r.confidence >= arg_threshold
    /\ r.uncertainty <= arg_uncertainty
    /\ arg_show_rejections \/ r.passes_threshold

\* The three filters on the result, each with the option as typed.
ByConfidence(rs) == FilterConfidence(rs, FHundredths(arg_threshold))
ByUncertainty(rs) == FilterUncertainty(rs, FHundredths(arg_uncertainty))
ByRejection(rs) == FilterRejections(rs, arg_show_rejections)

\* C17: the printed list is exactly the sub-sequence of the result of
\* analyze_request whose entries have confidence >= floor, uncertainty <=
\* ceiling and, unless rejections are shown, passes_threshold; applying the
\* three filters in any order gives that list.
C17_FilterIsPostProcessing ==
    mpc = "done" =>
        /\ emitted = SelectSeq(result, Wanted)
        /\ ByRejection(ByUncertainty(ByConfidence(result))) = emitted
        /\ ByUncertainty(ByRejection(ByConfidence(result))) = emitted
        /\ ByRejection(ByConfidence(ByUncertainty(result))) = emitted
        /\ ByConfidence(ByRejection(ByUncertainty(result))) = emitted
        /\ ByUncertainty(ByConfidence(ByRejection(result))) = emitted
        /\ ByConfidence(ByUncertainty(ByRejection(result))) = emitted

\* C17's case: with floor 0.80, ceiling 0.35 and rejections hidden, some
\* recommendations are printed and some are dropped, one of them at the
\* floor itself.
C17_Witness ==
    /\ mpc = "done"
    /\ arg_threshold = 80
    /\ arg_uncertainty = 35
    /\ ~arg_show_rejections
    /\ Len(emitted) >= 1
    /\ Len(emitted) < Len(result)
    /\ \E r \in 1..Len(emitted) : emitted[r].confidence = 80

\* C18: of two invocations of analyze_request whose statements interleave
\* in any order, each returns what it returns when run alone, and a
\* statement of one neither changes the locals nor the answer of the other.
C18_InvocationsIndependent ==
    /\ [](\A c \in Callers : at[c] = "done" => answers[c] = AnalyzeAlone(asked[c]))
    /\ [][\A c \in Callers :
              at'[c] = at[c] => (frames'[c] = frames[c] /\ answers'[c] = answers[c])]_vars

\* C18's case: both invocations have returned, for different requests,
\* each a list of its own.
C18_Witness ==
    /\ at[1] = "done"
    /\ at[2] = "done"
    /\ asked[1] = "Git"
    /\ asked[2] = "browser debug"
    /\ Len(answers[1]) >= 1
    /\ Len(answers[2]) >= 1
    /\ answers[1][1].skill = "workflows-git"
    /\ answers[2][1].skill = "workflows-chrome-devtools"

\* The types of the blocking errors, and the blocking errors a call found.
BlockingTypes ==
    {"missing_toc", "toc_single_dash_anchor", "toc_missing_emoji", "missing_h2_emoji",
     "missing_required_section"}
BlockingFound ==
    IF "blocking_errors" \in DOMAIN validation THEN validation.blocking_errors ELSE <<>>

\* C19: a call of validate_document on a path that matches an exclusion
\* pattern, exclusions not disabled, is skipped: exit code 0, no blocking
\* error and no warning, whether the file can be read or not.  Any other
\* call has exit code 2 when the file cannot be read; when it can, the exit
\* code is 0 exactly when the document yields no blocking error and 1
\* exactly when it yields at least one, every blocking error being of one
\* of the five types, whatever warnings there are.
C19_ExitCodes ==
    vpc = "done" =>
        IF ~arg_skip_exclusions /\ should_exclude_path(arg_file_path)
        THEN /\ validation.exit_code = 0
             /\ validation.skipped
             /\ validation.blocking_errors = <<>>
             /\ validation.warnings = <<>>
        ELSE IF file_read.is_none
        THEN validation.exit_code = 2
        ELSE /\ validation.exit_code \in {0, 1}
             /\ validation.exit_code = 0 <=> Len(BlockingFound) = 0
             /\ validation.exit_code = 1 <=> Len(BlockingFound) >= 1
             /\ \A e \in 1..Len(BlockingFound) :
                   /\ BlockingFound[e].severity = "blocking"
                   /\ BlockingFound[e].type \in BlockingTypes

\* A readable document that yields a warning and no blocking error was
\* validated: exit code 0.
C19_Witness ==
    /\ vpc = "done"
    /\ ~file_read.is_none
    /\ "total_issues" \in DOMAIN validation
    /\ "skipped" \notin DOMAIN validation
    /\ Len(validation.warnings) >= 1
    /\ validation.warnings[1].type = "non_sequential_numbering"
    /\ validation.blocking_errors = <<>>
    /\ validation.exit_code = 0

\* C20: no search term that is a stop word, the terms that synonym
\* expansion added included, adds corpus-match score (name, exact or fuzzy
\* tier) or a corpus provenance entry to any skill.
C20_StopWordsCarryNoWeight ==
    pc = "done" =>
        \A i \in 1..Len(iterations) :
            \A k \in 1..Len(search_terms) :
                search_terms[k] \in STOP_WORDS =>
                    /\ TermEntries(iterations[i].matches, search_terms[k]) = {}
                    /\ TermTenths(search_terms[k], NamePartsFiltered(iterations[i].name),
                                  Corpus(skills[i].config.description)) = 0

\* What one occurrence of token adds to the boost of skill, in tenths: the
\* magnitude of the single-skill table plus those of the multi-skill table.
SingleTenths(token, skill) ==
    IF token \in DOMAIN INTENT_BOOSTERS /\ INTENT_BOOSTERS[token][1] = skill
    THEN INTENT_BOOSTERS[token][2] ELSE 0

RECURSIVE MultiTenths(_, _, _)
MultiTenths(entries, i, skill) ==
    IF i > Len(entries) THEN 0
    ELSE (IF entries[i][1] = skill THEN entries[i][2] ELSE 0) + MultiTenths(entries, i + 1, skill)

TokenTenths(token, skill) ==
    SingleTenths(token, skill)
    + (IF token \in DOMAIN MULTI_SKILL_BOOSTERS
       THEN MultiTenths(MULTI_SKILL_BOOSTERS[token], 1, skill) ELSE 0)

RECURSIVE RequestTenths(_, _, _)
RequestTenths(toks, i, skill) ==
    IF i > Len(toks) THEN 0 ELSE TokenTenths(toks[i], skill) + RequestTenths(toks, i + 1, skill)

\* The skills the booster tables name for the tokens of a request.
Targets(toks) ==
    {INTENT_BOOSTERS[toks[i]][1] : i \in {j \in 1..Len(toks) : toks[j] \in DOMAIN INTENT_BOOSTERS}}
    \cup UNION {{MULTI_SKILL_BOOSTERS[toks[i]][e][1] : e \in 1..Len(MULTI_SKILL_BOOSTERS[toks[i]])} :
                   i \in {j \in 1..Len(toks) : toks[j] \in DOMAIN MULTI_SKILL_BOOSTERS}}

\* C21: a token K that is a key of both booster tables fires both on every
\* occurrence: the accumulated boost of every target skill is the sum, over
\* the occurrences of the tokens, of the magnitudes both tables give it, and
\* n occurrences of K leave n entries !K for the single-skill target and n
\* entries !K(multi) for each entry of K in the multi-skill table.
C21_BothTablesFire ==
    pc = "done" =>
        /\ DOMAIN skill_boosts = Targets(all_tokens)
        /\ \A S \in Targets(all_tokens) :
              Round2(skill_boosts[S]) = 10 * RequestTenths(all_tokens, 1, S)
        /\ \A K \in Range(all_tokens) \cap DOMAIN INTENT_BOOSTERS \cap DOMAIN MULTI_SKILL_BOOSTERS :
              LET n == Occurrences(all_tokens, K)
                  entries == MULTI_SKILL_BOOSTERS[K]
              IN  /\ Occurrences(boost_reasons[INTENT_BOOSTERS[K][1]], "!" \o K) = n
                  /\ \A S \in {entries[e][1] : e \in 1..Len(entries)} :
                        Occurrences(boost_reasons[S], "!" \o K \o "(multi)") =
                            n * Cardinality({e \in 1..Len(entries) : entries[e][1] = S})

\* C21's case: plan twice gives system-spec-kit 2 * (0.5 + 0.3) with a
\* direct and an ambiguous entry per occurrence, and workflows-code 2 * 0.2.
C21_Witness ==
    /\ pc = "done"
    /\ all_tokens = <<"plan", "plan">>
    /\ Round2(skill_boosts["system-spec-kit"]) = 160
    /\ boost_reasons["system-spec-kit"] = <<"!plan", "!plan(multi)", "!plan", "!plan(multi)">>
    /\ Round2(skill_boosts["workflows-code"]) = 40
    /\ boost_reasons["workflows-code"] = <<"!plan(multi)", "!plan(multi)">>

KeptTokens == {tok \in Range(all_tokens) : tok \notin STOP_WORDS /\ Len(tok) > 2}

\* C23: when tokens remain after filtering, search_terms lists, each once,
\* exactly the kept tokens and the synonyms the table gives for a kept
\* token: every kept token is a term, every synonym of a kept token is a
\* term, and every term is a kept token or a synonym of a kept token (so
\* no synonym of a synonym and no synonym of a filtered token gets in on
\* that ground alone).
C23_ExpansionIsDirect ==
    (pc = "done" /\ KeptTokens # {}) =>
        /\ Len(search_terms) = Cardinality(Range(search_terms))
        /\ KeptTokens \subseteq Range(search_terms)
        /\ \A tok \in KeptTokens \cap DOMAIN SYNONYM_MAP :
              Range(SYNONYM_MAP[tok]) \subseteq Range(search_terms)
        /\ \A term \in Range(search_terms) :
              \/ term \in KeptTokens
              \/ \E tok \in KeptTokens \cap DOMAIN SYNONYM_MAP : term \in Range(SYNONYM_MAP[tok])

\* C23's case: in the example request the filtered token how is a key of
\* the synonym table and is not expanded, worktree is a direct synonym of
\* git, and workspace, a synonym of worktree only, is not a term.
C23_Witness ==
    /\ pc = "done"
    /\ prompt = CommitRequest
    /\ "how" \in (Range(all_tokens) \cap DOMAIN SYNONYM_MAP) \ KeptTokens
    /\ \E s \in Range(SYNONYM_MAP["how"]) : s \notin Range(search_terms)
    /\ "worktree" \in Range(SYNONYM_MAP["git"]) \cap Range(search_terms)
    /\ "workspace" \in Range(SYNONYM_MAP["worktree"]) \ Range(search_terms)

\* The locals of the iterations of the loop over the catalog cat for the
\* request whose tokens are toks, in the process of the state.
IterationsFor(toks, cat) ==
    LET boosted == BoostLoop([skill_boosts |-> EmptyDict, boost_reasons |-> EmptyDict], toks, 1)
        kept    == FilterTokens(toks)
    IN  IF Len(kept) = 0 /\ DOMAIN boosted.skill_boosts = {} THEN <<>>
        ELSE SkillLoop(cat, boosted.skill_boosts, boosted.boost_reasons,
                       IF Len(kept) # 0 THEN ListOrder(expand_query(kept), hash_seed) ELSE <<>>,
                       hash_seed)

IsBoosterKey(tok) == tok \in DOMAIN INTENT_BOOSTERS \cup DOMAIN MULTI_SKILL_BOOSTERS

\* toks without the repetitions of the tokens that are no booster key.
RECURSIVE WithoutRepeats(_, _)
WithoutRepeats(toks, i) ==
    IF i > Len(toks) THEN <<>>
    ELSE (IF ~IsBoosterKey(toks[i]) /\ \E j \in 1..(i - 1) : toks[j] = toks[i]
          THEN <<>> ELSE <<toks[i]>>) \o WithoutRepeats(toks, i + 1)

\* What the claims compare of an iteration.
Scored(it) ==
    [name |-> it.name, score |-> it.score, entries |-> Len(it.matches),
     appended |-> it.appended, confidence |-> it.recommendation.confidence,
     uncertainty |-> it.recommendation.uncertainty,
     passes_threshold |-> it.recommendation.passes_threshold]

\* C24: the request without the repetitions of its tokens that are no
\* booster key gives every skill the same score, number of provenance
\* entries, confidence and uncertainty, and no search term, also one that
\* is both a token and a synonym of a token, has more than one corpus
\* provenance entry for a skill.
C24_TermsCountOnce ==
    pc = "done" =>
        LET once == IterationsFor(WithoutRepeats(all_tokens, 1), skills)
        IN  /\ Len(once) = Len(iterations)
            /\ \A i \in 1..Len(iterations) :
                  /\ Scored(iterations[i]) = Scored(once[i])
                  /\ \A k \in 1..Len(search_terms) :
                        Cardinality(TermEntries(iterations[i].matches, search_terms[k])) <= 1

\* C24's case: in "list Git list" the token list, no booster key, is
\* repeated; git-tools has one entry for show, the synonym of list that its
\* corpus matches, as it has for "list Git".
C24_Witness ==
    /\ pc = "done"
    /\ all_tokens = <<"list", "git", "list">>
    /\ WithoutRepeats(all_tokens, 1) = <<"list", "git">>
    /\ \E i \in 1..Len(iterations) :
          /\ iterations[i].name = "git-tools"
          /\ Occurrences(iterations[i].matches, "show~") = 1
          /\ Occurrences(iterations[i].matches, "merge") = 1

\* The names of the SKILL.md files whose metadata, as the catalog keeps it
\* (the last file of a name), has no description.
Undescribed ==
    {skill_files[k].data["name"] : k \in
        {k \in 1..Len(skill_files) :
            /\ ~skill_files[k].is_none
            /\ "name" \in DOMAIN skill_files[k].data
            /\ "description" \notin DOMAIN skill_files[k].data
            /\ \A l \in (k + 1)..Len(skill_files) :
                  (~skill_files[l].is_none /\ "name" \in DOMAIN skill_files[l].data)
                  => skill_files[l].data["name"] # skill_files[k].data["name"]}}

RemoveAt(seq, i) == SubSeq(seq, 1, i - 1) \o SubSeq(seq, i + 1, Len(seq))

\* C25: a skill whose metadata has no description is in the catalog and is
\* scored with an empty corpus, every provenance entry it has being an
\* intent boost or a name-token match, and every other skill of the catalog
\* has the locals and the recommendation it has when the request is
\* analysed against the catalog without that skill.
C25_MissingDescription ==
    (pc = "done" /\ dir_exists /\ iterations # <<>>) =>
        \A name \in Undescribed :
            \E i \in 1..Len(skills) :
                /\ skills[i].name = name
                /\ Corpus(skills[i].config.description) = {}
                /\ \A k \in 1..Len(iterations[i].matches) :
                      \/ IsBoostTag(iterations[i].matches[k])
                      \/ EndsWith(iterations[i].matches[k], "(name)")
                /\ RemoveAt(iterations, i) = IterationsFor(all_tokens, RemoveAt(skills, i))

\* C25's case: for "debug Git", workflows-chrome-devtools, without
\* description, is recommended on its boost, and workflows-git is
\* recommended too.
C25_Witness ==
    /\ pc = "done"
    /\ all_tokens = <<"debug", "git">>
    /\ "workflows-chrome-devtools" \in Undescribed
    /\ \E i, j \in 1..Len(iterations) :
          /\ iterations[i].name = "workflows-chrome-devtools"
          /\ iterations[i].appended
          /\ iterations[i].matches # <<>>
          /\ iterations[j].name = "workflows-git"
          /\ iterations[j].appended

\* C26: for every recommendation, passes_threshold is true exactly when the
\* reported confidence is at least 0.80 and the reported uncertainty at
\* most 0.35, and no recommendation is reported with a confidence of 0.80
\* or more while the confidence the gate saw is below 0.8.
C26_GateAgreesWithReport ==
    pc = "done" =>
        \A i \in 1..Len(iterations) :
            iterations[i].appended =>
                LET rec == iterations[i].recommendation
                IN  /\ rec.passes_threshold <=> (rec.confidence >= 80 /\ rec.uncertainty <= 35)
                    /\ ~(rec.confidence >= 80 /\ FLt(iterations[i].confidence, F_0_8))

\* C27: under the default thresholds every recommendation that passes the
\* gate rests on at least 3 provenance entries, and on at least 5 when the
\* skill has no intent boost; a skill with one or two entries never passes.
C27_PassingNeedsEvidence ==
    \A i \in 1..Len(iterations) :
        (iterations[i].appended /\ iterations[i].recommendation.passes_threshold) =>
            /\ Len(iterations[i].matches) >= 3
            /\ (~iterations[i].has_boost => Len(iterations[i].matches) >= 5)

\* A request for which a boosted skill passes, an unboosted skill passes on
\* exactly five entries, and a confident unboosted skill with three entries
\* is held back.
C27_Witness ==
    /\ pc = "done"
    /\ \E i \in 1..Len(iterations) :
          /\ iterations[i].appended
          /\ iterations[i].recommendation.passes_threshold
          /\ iterations[i].has_boost
    /\ \E i \in 1..Len(iterations) :
          /\ iterations[i].appended
          /\ iterations[i].recommendation.passes_threshold
          /\ ~iterations[i].has_boost
          /\ Len(iterations[i].matches) = 5
    /\ \E j \in 1..Len(iterations) :
          /\ iterations[j].appended
          /\ ~iterations[j].recommendation.passes_threshold
          /\ ~iterations[j].has_boost
          /\ Len(iterations[j].matches) = 3
          /\ iterations[j].recommendation.confidence >= 80

\* The provenance entries of an iteration that a multi-skill booster wrote.
AmbiguousEntries(it) ==
    {k \in 1..Len(it.matches) : EndsWith(it.matches[k], "(multi)")}

\* C28: a skill's score is positive exactly when its provenance list is not
\* empty, so every returned recommendation has at least one entry; a skill
\* without intent boost has no ambiguous entry and the ambiguous entries are
\* never more than the entries; every reported uncertainty lies between
\* 0.15 and 0.60.
C28_ProvenanceInvariants ==
    /\ \A i \in 1..Len(iterations) :
          /\ FGt(iterations[i].score, FZero) <=> Len(iterations[i].matches) >= 1
          /\ iterations[i].appended => Len(iterations[i].matches) >= 1
          /\ ~iterations[i].has_boost => AmbiguousEntries(iterations[i]) = {}
          /\ Cardinality(AmbiguousEntries(iterations[i])) <= Len(iterations[i].matches)
    /\ \A k \in 1..Len(result) :
          /\ result[k].uncertainty >= 15
          /\ result[k].uncertainty <= 60
          /\ \E i \in 1..Len(iterations) :
                /\ iterations[i].name = result[k].skill
                /\ Len(iterations[i].matches) >= 1

\* Both ends of the range are returned for one request, next to a skill
\* that scored nothing and was left out.
C28_Witness ==
    /\ pc = "done"
    /\ \E k \in 1..Len(result) : result[k].uncertainty = 15
    /\ \E k \in 1..Len(result) : result[k].uncertainty = 60
    /\ \E i \in 1..Len(iterations) :
          ~iterations[i].appended /\ Len(iterations[i].matches) = 0

\* C29: each skill is scored independently of the rest of the catalog: the
\* locals and the recommendation of every skill are those it has when it is
\* alone in the catalog, removing any one skill leaves those of the others
\* unchanged, and every returned recommendation is that of a catalog skill.
C29_SkillsScoredIndependently ==
    (pc = "done" /\ iterations # <<>>) =>
        /\ \A i \in 1..Len(skills) :
              /\ <<iterations[i]>> = IterationsFor(all_tokens, <<skills[i]>>)
              /\ RemoveAt(iterations, i) = IterationsFor(all_tokens, RemoveAt(skills, i))
        /\ \A k \in 1..Len(result) :
              \E i \in 1..Len(skills) :
                  /\ skills[i].name = result[k].skill
                  /\ iterations[i].appended
                  /\ iterations[i].recommendation = result[k]

\* A fired booster targets a skill that is not in the catalog, and at least
\* two skills of the catalog are returned, one of them on corpus matches a
\* neighbour does not have.
C29_Witness ==
    /\ pc = "done"
    /\ \E name \in DOMAIN skill_boosts :
          \A i \in 1..Len(skills) : skills[i].name # name
    /\ Len(result) >= 2
    /\ \E i, j \in 1..Len(iterations) :
          /\ i + 1 = j
          /\ iterations[i].appended
          /\ ~iterations[j].appended

\* The accumulated boosts of the request whose tokens are toks.
BoostsFor(toks) ==
    BoostLoop([skill_boosts |-> EmptyDict, boost_reasons |-> EmptyDict], toks, 1).skill_boosts

\* What the loop over the catalog of the state computes for the request
\* toks; a request that returns before the loop scores nothing and
\* recommends nothing.
Shorter(toks) ==
    LET its == IterationsFor(toks, skills)
    IN  [i \in 1..Len(skills) |->
            IF its = <<>>
            THEN [score |-> FZero, confidence |-> FZero, appended |-> FALSE, reported |-> 0]
            ELSE [score |-> its[i].score, confidence |-> its[i].confidence,
                  appended |-> its[i].appended,
                  reported |-> its[i].recommendation.confidence]]

\* C30: scoring is monotone in the request: against the request made of
\* any proper prefix of the tokens, no skill has a larger accumulated boost,
\* a larger total score or a larger confidence, and every skill the prefix
\* returns is returned.
C30_MonotoneInRequest ==
    (pc = "done" /\ iterations # <<>>) =>
        \A n \in 0..(Len(all_tokens) - 1) :
            LET before == BoostsFor(SubSeq(all_tokens, 1, n))
                short  == Shorter(SubSeq(all_tokens, 1, n))
            IN  /\ \A name \in DOMAIN before :
                      /\ name \in DOMAIN skill_boosts
                      /\ FLe(before[name], skill_boosts[name])
                /\ \A i \in 1..Len(skills) :
                      /\ FLe(short[i].score, iterations[i].score)
                      /\ short[i].appended =>
                            /\ iterations[i].appended
                            /\ FLe(short[i].confidence, iterations[i].confidence)
                            /\ short[i].reported <= iterations[i].recommendation.confidence

\* A request of three tokens: a skill is returned for its first token, its
\* score grows with the second and again with the third, and the reported
\* confidence grows with the third.
C30_Witness ==
    /\ pc = "done"
    /\ Len(all_tokens) = 3
    /\ LET one == Shorter(SubSeq(all_tokens, 1, 1))
           two == Shorter(SubSeq(all_tokens, 1, 2))
       IN  \E i \in 1..Len(skills) :
               /\ one[i].appended
               /\ FLt(one[i].score, two[i].score)
               /\ FLt(two[i].score, iterations[i].score)
               /\ two[i].reported < iterations[i].recommendation.confidence

====
